---- MODULE Spec2Model ----
(***************************************************************************)
(* Replay engine of osm-git: one pass of convert_objects_to_git over an    *)
(* osmChange file (parse groupings, apply them to the <id>.yaml object     *)
(* store, resolve the changesets in the newest archive, emit one commit    *)
(* and one note per entry of changeset_list), on top of the commit helper  *)
(* of git/mod.rs.                                                          *)
(***************************************************************************)
EXTENDS Integers, Sequences, FiniteSets, TLC

VARIABLES
    pc,             \* position of the driver: start, idle, top, group, commits, done,
                    \* panicked, exit, and store / parse / parsed for the function specs
    repo_path,      \* what is at git_repo_path: absent, repository, other
    file_kind,      \* history: the change file of this pass: none, empty, corrupt,
                    \* empty_text, xml, broken_xml
    budget,         \* object elements the remaining input may still hold
    store,          \* working tree: file name -> file content (domain = existing files)
    head,           \* commits reachable from HEAD, oldest first (HEAD is the last)
    notes,          \* notes of refs/notes/commits: set of [target, body, author, committer]
    dir,            \* the changesets directory: set of [name, n, data]
    grouping,       \* the <create|modify|delete> grouping being read
    pending,        \* created_objects / deleted_objects of the grouping being read
    addmod,         \* created_or_modified_objects_for_changeset
    del,            \* deleted_objects_for_changeset
    changeset_list, \* changeset ids to commit, in commit order
    changesets,     \* result of parse_changeset for this pass
    idx,            \* position of the commit loop in changeset_list
    result,         \* how the last pass ended: none, ok, err
    emitted,        \* history: the calls of commit() made by this pass
    resolvedPairs,  \* history: (change file, changeset id) pairs with metadata so far
    fileElems,      \* history: the object elements read from this change file so far
    changeset_path, \* the archive the directory scan settled on (None: the empty string)
    archive_read,   \* history: <changeset> elements parse_changeset read from the archive
    changeset_position,  \* changeset_position_top / _middle / _bottom of main()
    data_position,       \* data_position_top / _middle / _bottom of main()
    data_position_middle_incremented,
    data_position_top_incremented,
    cache,          \* files under <cache_path>/replication: position -> sequence cached there
    server,         \* replication sequences the server answers with data (others: 404)
    replayed,       \* history: the sequences handed to convert_objects_to_git, in call order
    yaml_object,    \* what serde_yaml::from_reader returned for an object file, if it was read
    changeset_position_middle_incremented,
    changeset_position_top_incremented,
    changeset_cache,   \* positions that have a file under <cache_path>/changesets
    changeset_server,  \* changeset sequences the server answers with data (others: 404)
    changeset_files,   \* the sequences whose changesets main() has collected, in order
    requested,         \* history: the triples the two loops formatted into a cache path
                       \* or a URL, each with the loop, the use and the data position then
    events,            \* the XML input as the events its reader yields before Eof
    event_position,    \* how many of them the reader has yielded
    event,             \* the event a loop has just read, until the loop has handled it
    open_element,      \* the element whose constructor is reading its children
    debug_xml,         \* whether ./debug.xml was written
    store_at_call      \* history: the working tree as the pass found it

vars == <<pc, repo_path, file_kind, budget, store, head, notes, dir, grouping, pending, addmod, del,
          changeset_list, changesets, idx, result, emitted,
          resolvedPairs, fileElems, changeset_path, archive_read,
          changeset_position, data_position, data_position_middle_incremented,
          data_position_top_incremented, cache, server, replayed, yaml_object,
          changeset_position_middle_incremented, changeset_position_top_incremented,
          changeset_cache, changeset_server, changeset_files, requested,
          events, event_position, event, open_element, debug_xml, store_at_call>>

\* The locals of the archive lookup, and the state of the download loops of main().
indexVars == <<changeset_path, archive_read, yaml_object, store_at_call>>
changesetLoopVars == <<changeset_position_middle_incremented,
                       changeset_position_top_incremented, changeset_cache,
                       changeset_server, changeset_files>>
readerVars == <<events, event_position, event, open_element, debug_xml>>
driverVars == <<changeset_position, data_position, data_position_middle_incremented,
                data_position_top_incremented, cache, server, replayed,
                changesetLoopVars, requested, readerVars>>

-----------------------------------------------------------------------------
(* Bounds *)

MaxDeltas == 3          \* object elements over all change files of a run
MaxStoreOps == 2        \* deltas applied in a row to a drawn object store
MaxArchiveLen == 2      \* <changeset> elements of a drawn archive
MaxWanted == 2          \* ids of a drawn changeset_list

-----------------------------------------------------------------------------
(* Options, strings, numbers *)

None == <<>>
Some(v) == <<v>>
IsSome(o) == Len(o) > 0
Unwrap(o) == o[1]

Get(attrs, k) == IF k \in DOMAIN attrs THEN Some(attrs[k]) ELSE None

\* str::parse::<u64>: the decimal numerals of the values the inputs use.
U64Values == {0, 1, 2, 5, 7, 100, 200, 999}
U64Table == [s \in {ToString(n) : n \in U64Values} |-> CHOOSE n \in U64Values : ToString(n) = s]
ParseU64(s) == IF s \in DOMAIN U64Table THEN Some(U64Table[s]) ELSE None

\* str::parse::<f64>: the value in tenths of a unit.
F64Table == ("10.0" :> 100) @@ ("20.0" :> 200) @@ ("1" :> 10) @@ ("2" :> 20)
ParseF64(s) == IF s \in DOMAIN F64Table THEN Some(F64Table[s]) ELSE None

\* str::trim on the strings the inputs use.
TrimTable == (" first " :> "first") @@ (" " :> "") @@ ("  " :> "")
Trim(s) == IF s \in DOMAIN TrimTable THEN TrimTable[s] ELSE s

\* OffsetDateTime::parse(.., Iso8601::DEFAULT).unix_timestamp()
IsoTable == ("2020-01-01T00:00:00Z" :> 1577836800) @@ ("2020-01-02T00:00:00Z" :> 1577923200)
ParseIso8601(s) == IF s \in DOMAIN IsoTable THEN Some(IsoTable[s]) ELSE None

FILE_VERSION == "0.1.0"

-----------------------------------------------------------------------------
(* The osmChange dialect: object elements and the objects parsed from them *)

\* A <node|way|relation> element: its attributes (name -> text), its <tag>
\* children, and the attributes of its <nd> or <member> children in document order.
ElemWith(name, attrs, tags, children) ==
    [name |-> name, attrs |-> attrs, tags |-> tags, children |-> children]
Elem(name, attrs, tags) == ElemWith(name, attrs, tags, <<>>)

NodeAttrs(id, cs, version) ==
    ("id" :> id) @@ ("changeset" :> cs) @@ ("version" :> version)
CoordAttrs(lat, lon) == ("lat" :> lat) @@ ("lon" :> lon)

\* The object elements the change files of a run are made of.
ChangeElements ==
    { Elem("node", NodeAttrs("1", "100", "1") @@ CoordAttrs("10.0", "20.0"), <<>>),
      Elem("node", NodeAttrs("1", "100", "2"), <<>>),
      Elem("node", NodeAttrs("1", "100", "2") @@ CoordAttrs("10.0", "20.0"), <<>>),
      Elem("node", NodeAttrs("1", "200", "2") @@ CoordAttrs("1", "2"), <<>>),
      Elem("way",  NodeAttrs("2", "200", "1"), <<>>),
      Elem("node", NodeAttrs("2", "999", "1") @@ CoordAttrs("1", "2"), <<>>) }

ObjectIds == {1, 2}

\* Outcome of an element constructor: the object, or a panic (unwrap/expect).
Parsed(o) == [status |-> "ok", obj |-> <<o>>]
Panicked == [status |-> "panic", obj |-> <<>>]

\* The <tag k v> children folded into the BTreeMap of tags (a later key replaces).
RECURSIVE TagMap(_)
TagMap(tags) ==
    IF tags = <<>> THEN <<>>
    ELSE LET rest == TagMap(SubSeq(tags, 1, Len(tags) - 1))
             t == tags[Len(tags)]
         IN [k \in (DOMAIN rest) \cup {t.k} |-> IF k = t.k THEN t.v ELSE rest[k]]

\* Node::new_from_element
NodeNewFromElement(e) ==
    LET id == Get(e.attrs, "id")
        cs == Get(e.attrs, "changeset")
        lat == Get(e.attrs, "lat")
        lon == Get(e.attrs, "lon")
    IN  IF ~IsSome(id) \/ ~IsSome(cs) \/ ~IsSome(lat) \/ ~IsSome(lon) THEN Panicked
        ELSE IF \/ ~IsSome(ParseU64(Unwrap(id))) \/ ~IsSome(ParseU64(Unwrap(cs)))
                \/ ~IsSome(ParseF64(Unwrap(lat))) \/ ~IsSome(ParseF64(Unwrap(lon)))
             THEN Panicked
        ELSE Parsed([kind |-> "Node",
                     id |-> Unwrap(ParseU64(Unwrap(id))),
                     changeset |-> Unwrap(ParseU64(Unwrap(cs))),
                     file_generator |-> Get(e.attrs, "generator"),
                     file_version |-> FILE_VERSION,
                     legacy_object_version |-> Get(e.attrs, "version"),
                     lat |-> ParseF64(Unwrap(lat)),
                     lon |-> ParseF64(Unwrap(lon)),
                     tags |-> TagMap(e.tags),
                     nodes |-> <<>>,
                     member |-> <<>>])

\* The attribute loop of a child: a Cow that stays "" when the attribute is absent.
AttrOr(a, k) == IF k \in DOMAIN a THEN a[k] ELSE ""

\* WayNodes that leaves out the closing node of a closed way.
WayNodes_OpenRing(children) ==
    LET all == [i \in 1..Len(children) |-> U64Table[AttrOr(children[i], "ref")]]
    IN  IF Len(all) > 1 /\ all[Len(all)] = all[1] THEN SubSeq(all, 1, Len(all) - 1) ELSE all

\* way.nodes: the ref of each <nd>, pushed in document order.
WayNodes(children) == [i \in 1..Len(children) |-> U64Table[AttrOr(children[i], "ref")]]

\* RelationMembers that keeps the role as it is written, the empty one included.
RelationMembers_RoleAsWritten(children) ==
    [i \in 1..Len(children) |->
        [type |-> AttrOr(children[i], "type"),
         ref_id |-> U64Table[AttrOr(children[i], "ref")],
         role |-> Some(AttrOr(children[i], "role"))]]

\* relation.member: type, ref and role of each <member>, pushed in document
\* order; an empty or absent role is None.
RelationMembers(children) ==
    [i \in 1..Len(children) |->
        [type |-> AttrOr(children[i], "type"),
         ref_id |-> U64Table[AttrOr(children[i], "ref")],
         role |-> IF AttrOr(children[i], "role") = "" THEN None
                  ELSE Some(AttrOr(children[i], "role"))]]

\* Way::new_from_element and Relation::new_from_element (no coordinates; a
\* relation has no nodes, a way no member). A ref that does not parse panics.
WayNewFromElement(e, kind) ==
    LET id == Get(e.attrs, "id")
        cs == Get(e.attrs, "changeset")
    IN  IF ~IsSome(id) \/ ~IsSome(cs) THEN Panicked
        ELSE IF ~IsSome(ParseU64(Unwrap(id))) \/ ~IsSome(ParseU64(Unwrap(cs)))
             THEN Panicked
        ELSE IF \E i \in 1..Len(e.children) : ~IsSome(ParseU64(AttrOr(e.children[i], "ref")))
             THEN Panicked
        ELSE Parsed([kind |-> kind,
                     id |-> Unwrap(ParseU64(Unwrap(id))),
                     changeset |-> Unwrap(ParseU64(Unwrap(cs))),
                     file_generator |-> Get(e.attrs, "generator"),
                     file_version |-> FILE_VERSION,
                     legacy_object_version |-> Get(e.attrs, "version"),
                     lat |-> None,
                     lon |-> None,
                     tags |-> TagMap(e.tags),
                     nodes |-> IF kind = "Way" THEN WayNodes(e.children) ELSE <<>>,
                     member |-> IF kind = "Relation" THEN RelationMembers(e.children)
                                ELSE <<>>])

\* The constructor the grouping loop calls for an element name.
NewFromElement(e) ==
    IF e.name = "node" THEN NodeNewFromElement(e)
    ELSE IF e.name = "way" THEN WayNewFromElement(e, "Way")
    ELSE WayNewFromElement(e, "Relation")

-----------------------------------------------------------------------------
(* The object store: <id>.yaml files in the working tree *)

\* ObjectFileName that keeps the kinds apart: node-<id>.yaml, way-<id>.yaml, ...
ObjectFileName_ByKind(obj) == obj.kind \o "-" \o ToString(obj.id) \o ".yaml"

\* format!("{}.yaml", id), the same for the three kinds.
ObjectFileName(obj) == ToString(obj.id) \o ".yaml"
FileNameOfId(i) == ToString(i) \o ".yaml"

\* A key of the YAML mapping that skip_serializing_if leaves out: an Option
\* that is None, a map or list that is empty.
KeyIfSome(k, o) == IF IsSome(o) THEN k :> Unwrap(o) ELSE <<>>
KeyIfNonEmpty(k, v) == IF DOMAIN v = {} THEN <<>> ELSE k :> v

\* A RelationMember as a YAML mapping: type, ref, and role when it is Some.
SerializeMember(mem) ==
    ("type" :> mem.type) @@ ("ref" :> mem.ref_id) @@ KeyIfSome("role", mem.role)

\* Serialize that writes the role of a member as a string, "" for None.
Serialize_RoleAsString(obj) ==
    ("type" :> obj.kind)
    @@ KeyIfSome("file_generator", obj.file_generator)
    @@ ("file_version" :> obj.file_version)
    @@ KeyIfSome("legacy_object_version", obj.legacy_object_version)
    @@ (IF obj.kind = "Node"
        THEN ("lat" :> Unwrap(obj.lat)) @@ ("lon" :> Unwrap(obj.lon)) ELSE <<>>)
    @@ KeyIfNonEmpty("tags", obj.tags)
    @@ (IF obj.kind = "Way" THEN KeyIfNonEmpty("nodes", obj.nodes) ELSE <<>>)
    @@ (IF obj.kind = "Relation"
        THEN KeyIfNonEmpty("member",
                 [i \in 1..Len(obj.member) |->
                     ("type" :> obj.member[i].type) @@ ("ref" :> obj.member[i].ref_id)
                     @@ ("role" :> IF IsSome(obj.member[i].role)
                                   THEN Unwrap(obj.member[i].role) ELSE "")])
        ELSE <<>>)

\* serde_yaml::to_writer of an OSMObject: the mapping of the keys written. The
\* variant is the key "type"; id and changeset are skipped; the Options and the
\* collections are written only when Some / non-empty; lat and lon belong to a
\* Node, nodes to a Way, member to a Relation.
Serialize(obj) ==
    ("type" :> obj.kind)
    @@ KeyIfSome("file_generator", obj.file_generator)
    @@ ("file_version" :> obj.file_version)
    @@ KeyIfSome("legacy_object_version", obj.legacy_object_version)
    @@ (IF obj.kind = "Node"
        THEN ("lat" :> Unwrap(obj.lat)) @@ ("lon" :> Unwrap(obj.lon)) ELSE <<>>)
    @@ KeyIfNonEmpty("tags", obj.tags)
    @@ (IF obj.kind = "Way" THEN KeyIfNonEmpty("nodes", obj.nodes) ELSE <<>>)
    @@ (IF obj.kind = "Relation"
        THEN KeyIfNonEmpty("member",
                 [i \in 1..Len(obj.member) |-> SerializeMember(obj.member[i])])
        ELSE <<>>)

\* A key with #[serde(default)]: the empty collection when the key is missing.
OrDefault(content, k) == IF k \in DOMAIN content THEN content[k] ELSE <<>>

DeserializeMember(c) ==
    [type |-> c["type"], ref_id |-> c["ref"], role |-> Get(c, "role")]

\* serde_yaml::from_reader: the variant from the key "type", the skipped fields
\* at their defaults, a missing Option None, a missing collection empty.
Deserialize(content) ==
    LET kind == content["type"]
    IN  [kind |-> kind, id |-> 0, changeset |-> 0,
         file_generator |-> Get(content, "file_generator"),
         file_version |-> content["file_version"],
         legacy_object_version |-> Get(content, "legacy_object_version"),
         lat |-> IF kind = "Node" THEN Some(content["lat"]) ELSE None,
         lon |-> IF kind = "Node" THEN Some(content["lon"]) ELSE None,
         tags |-> OrDefault(content, "tags"),
         nodes |-> IF kind = "Way" THEN OrDefault(content, "nodes") ELSE <<>>,
         member |-> IF kind = "Relation"
                    THEN LET ms == OrDefault(content, "member")
                         IN  [i \in 1..Len(ms) |-> DeserializeMember(ms[i])]
                    ELSE <<>>]

WriteFile(st, name, content) ==
    [n \in (DOMAIN st) \cup {name} |-> IF n = name THEN content ELSE st[n]]
RemoveFile(st, name) == [n \in (DOMAIN st) \ {name} |-> st[n]]

\* entry(changeset).or_insert_with(Vec::new).push(object)
PushFor(m, cs, obj) ==
    [c \in (DOMAIN m) \cup {cs} |->
        IF c = cs THEN Append(IF cs \in DOMAIN m THEN m[cs] ELSE <<>>, obj) ELSE m[c]]

\* Vec::remove(index)
RemoveAt(s, i) == SubSeq(s, 1, i - 1) \o SubSeq(s, i + 1, Len(s))

\* iter().position(|existing_object| *existing_object == object)
Position(s, obj) ==
    IF \E i \in 1..Len(s) : s[i] = obj
    THEN Some(CHOOSE i \in 1..Len(s) : s[i] = obj /\ \A j \in 1..(i - 1) : s[j] # obj)
    ELSE None

\* State of the maps and of the store while the objects of a grouping are applied.
\* err: a filesystem or YAML error that ends the pass ('?').
PassState(st, am, dl, err) ==
    [store |-> st, addmod |-> am, del |-> dl, err |-> err]

\* <create>: File::create + to_writer, then push to the created/modified map.
ApplyCreate(ps, obj) ==
    PassState(WriteFile(ps.store, ObjectFileName(obj), Serialize(obj)),
              PushFor(ps.addmod, obj.changeset, obj),
              ps.del,
              ps.err)

\* The fields of the file's object replaced by those of the delta's object, when
\* both are of the same kind (the match of the modify branch). The merged
\* object is dropped afterwards: what is written back is the delta's object.
MergeInto(file_object, obj) ==
    IF file_object.kind = obj.kind
    THEN [obj EXCEPT !.id = file_object.id]
    ELSE file_object

\* ApplyModify without the upsert: a missing file makes the delta a no-op.
ApplyModify_NoUpsert(ps, obj) ==
    LET name == ObjectFileName(obj)
    IN  IF name \notin DOMAIN ps.store THEN ps
        ELSE PassState(WriteFile(ps.store, name, Serialize(obj)),
                       PushFor(ps.addmod, obj.changeset, obj),
                       ps.del,
                       ps.err)

\* ApplyModify that seeds a missing file without the legacy version and leaves
\* it at that.
ApplyModify_StubWhenAbsent(ps, obj) ==
    LET name == ObjectFileName(obj)
    IN  PassState(WriteFile(ps.store, name,
                            IF name \in DOMAIN ps.store THEN Serialize(obj)
                            ELSE Serialize([obj EXCEPT !.legacy_object_version = None])),
                  PushFor(ps.addmod, obj.changeset, obj),
                  ps.del,
                  ps.err)

\* ApplyModify that writes back the object read from the file after the merge.
ApplyModify_WriteMerged(ps, obj) ==
    LET name == ObjectFileName(obj)
        st1 == IF name \in DOMAIN ps.store THEN ps.store
               ELSE WriteFile(ps.store, name, Serialize(obj))
        file_object == MergeInto(Deserialize(st1[name]), obj)
    IN  PassState(WriteFile(st1, name, Serialize(file_object)),
                  PushFor(ps.addmod, obj.changeset, obj),
                  ps.del,
                  ps.err)

\* <modify>: create the file when missing, read it back, merge, then truncate
\* and write the delta's object.
ApplyModify(ps, obj) ==
    LET name == ObjectFileName(obj)
        st1 == IF name \in DOMAIN ps.store THEN ps.store
               ELSE WriteFile(ps.store, name, Serialize(obj))
        readable == /\ "type" \in DOMAIN st1[name]
                    /\ st1[name]["type"] \in {"Node", "Way", "Relation"}
        file_object == MergeInto(Deserialize(st1[name]), obj)
    IN  IF ~readable THEN PassState(st1, ps.addmod, ps.del, TRUE)
        ELSE PassState(WriteFile(st1, name, Serialize(obj)),
                       PushFor(ps.addmod, obj.changeset, obj),
                       ps.del,
                                ps.err)

\* ApplyDelete that removes the file only when the object was found in the
\* created/modified list of its changeset.
ApplyDelete_OnlyListed(ps, obj) ==
    LET name == ObjectFileName(obj)
        cs == obj.changeset
        pos == IF cs \in DOMAIN ps.addmod THEN Position(ps.addmod[cs], obj) ELSE None
    IN  PassState(IF IsSome(pos) /\ name \in DOMAIN ps.store
                  THEN RemoveFile(ps.store, name) ELSE ps.store,
                  IF IsSome(pos)
                  THEN [ps.addmod EXCEPT ![cs] = RemoveAt(@, Unwrap(pos))]
                  ELSE ps.addmod,
                  PushFor(ps.del, cs, obj),
                  ps.err)

\* <delete>: remove the file when it exists, push to the deleted map, and drop
\* the first equal object from the created/modified list of the changeset.
ApplyDelete(ps, obj) ==
    LET name == ObjectFileName(obj)
        cs == obj.changeset
        pos == IF cs \in DOMAIN ps.addmod THEN Position(ps.addmod[cs], obj) ELSE None
    IN  PassState(IF name \in DOMAIN ps.store THEN RemoveFile(ps.store, name) ELSE ps.store,
                  IF IsSome(pos)
                  THEN [ps.addmod EXCEPT ![cs] = RemoveAt(@, Unwrap(pos))]
                  ELSE ps.addmod,
                  PushFor(ps.del, cs, obj),
                  ps.err)

ApplyObject(action, ps, obj) ==
    IF action = "create" THEN ApplyCreate(ps, obj)
    ELSE IF action = "modify" THEN ApplyModify(ps, obj)
    ELSE ApplyDelete(ps, obj)

\* ApplyAll that walks the objects of a grouping from the last to the first.
RECURSIVE ApplyAll_Reversed(_, _, _)
ApplyAll_Reversed(action, ps, objs) ==
    IF objs = <<>> \/ ps.err THEN ps
    ELSE ApplyAll_Reversed(action, ApplyObject(action, ps, objs[Len(objs)]),
                           SubSeq(objs, 1, Len(objs) - 1))

\* The for loop over the objects of a grouping; an error ends it.
RECURSIVE ApplyAll(_, _, _)
ApplyAll(action, ps, objs) ==
    IF objs = <<>> \/ ps.err THEN ps
    ELSE ApplyAll(action, ApplyObject(action, ps, Head(objs)), Tail(objs))

-----------------------------------------------------------------------------
(* The changeset dialect and the changeset index *)

\* A <changeset> element: its attributes and its <tag k v> children.
CsElem(attrs, tags) == [attrs |-> attrs, tags |-> tags]
CsTag(k, v) == [k |-> k, v |-> v]

\* The archive the replay of a run resolves its changesets in.
DefaultArchive ==
    << CsElem(("id" :> "100") @@ ("created_at" :> "2020-01-01T00:00:00Z")
              @@ ("open" :> "false") @@ ("user" :> "alice") @@ ("uid" :> "7"),
              << CsTag("comment", " first "), CsTag("source", "survey") >>),
       CsElem(("id" :> "200") @@ ("created_at" :> "2020-01-01T00:00:00Z")
              @@ ("closed_at" :> "2020-01-02T00:00:00Z") @@ ("open" :> "false"),
              <<>>) >>

\* An archive whose changeset 100 carries a time that is not ISO-8601.
BadTimeArchive ==
    << CsElem(("id" :> "100") @@ ("created_at" :> "yesterday")
              @@ ("open" :> "false") @@ ("user" :> "alice") @@ ("uid" :> "7"),
              <<>>),
       CsElem(("id" :> "200") @@ ("created_at" :> "2020-01-01T00:00:00Z")
              @@ ("closed_at" :> "2020-01-02T00:00:00Z") @@ ("open" :> "false"),
              <<>>) >>

ParseBool(s) == IF s \in {"true", "false"} THEN Some(s = "true") ELSE None

\* The attribute loop of a <tag> child: it walks the attributes of the enclosing
\* <changeset> element, so k and v are taken from there or stay "".
TagKeyValue(element, tag) ==
    [k |-> IF "k" \in DOMAIN element.attrs THEN element.attrs["k"] ELSE "",
     v |-> IF "v" \in DOMAIN element.attrs THEN element.attrs["v"] ELSE ""]

\* changeset.tags after the child loop (HashMap::insert per <tag> child).
RECURSIVE ChangesetTags(_, _)
ChangesetTags(element, tags) ==
    IF tags = <<>> THEN <<>>
    ELSE LET rest == ChangesetTags(element, SubSeq(tags, 1, Len(tags) - 1))
             t == TagKeyValue(element, tags[Len(tags)])
         IN [k \in (DOMAIN rest) \cup {t.k} |-> IF k = t.k THEN t.v ELSE rest[k]]

\* The bounding box attributes: each is parsed with unwrap when present.
BoxKeys == {"min_lat", "max_lat", "min_lon", "max_lon"}
BoxValue(a, k) == IF k \in DOMAIN a THEN ParseF64(a[k]) ELSE None

\* The struct literal of Changeset::new_from_element for a wanted id: a panic
\* on unwrap of a missing or unparsable attribute, else the changeset.
ChangesetFromAttributes(element, id) ==
    LET a == element.attrs
        uid == ParseU64(IF "uid" \in DOMAIN a THEN a["uid"] ELSE "0")
    IN  IF \/ "created_at" \notin DOMAIN a
           \/ "open" \notin DOMAIN a
           \/ ~IsSome(ParseBool(a["open"]))
           \/ ~IsSome(uid)
           \/ \E k \in BoxKeys : k \in DOMAIN a /\ ~IsSome(ParseF64(a[k]))
        THEN [status |-> "panic", changeset |-> <<>>]
        ELSE [status |-> "some",
              changeset |-> << [id |-> id,
                               created_at |-> a["created_at"],
                               closed_at |-> Get(a, "closed_at"),
                               open |-> Unwrap(ParseBool(a["open"])),
                               user |-> IF "user" \in DOMAIN a THEN a["user"] ELSE "Unknown",
                               uid |-> Unwrap(uid),
                               min_lat |-> BoxValue(a, "min_lat"),
                               max_lat |-> BoxValue(a, "max_lat"),
                               min_lon |-> BoxValue(a, "min_lon"),
                               max_lon |-> BoxValue(a, "max_lon"),
                               tags |-> ChangesetTags(element, element.tags)] >>]

\* Changeset::new_from_element without the test against changeset_list.
ChangesetNewFromElement_NoFilter(element, wanted) ==
    LET a == element.attrs
        id == IF "id" \in DOMAIN a THEN ParseU64(a["id"]) ELSE None
    IN  IF ~IsSome(id) THEN [status |-> "panic", changeset |-> <<>>]
        ELSE ChangesetFromAttributes(element, Unwrap(id))

\* Changeset::new_from_element: a panic on unwrap of a missing or unparsable
\* id, Ok(None) for an unwanted id, else the struct literal for a wanted one.
ChangesetNewFromElement(element, wanted) ==
    LET a == element.attrs
        id == IF "id" \in DOMAIN a THEN ParseU64(a["id"]) ELSE None
    IN  IF ~IsSome(id) THEN [status |-> "panic", changeset |-> <<>>]
        ELSE IF Unwrap(id) \notin wanted THEN [status |-> "none", changeset |-> <<>>]
        ELSE ChangesetFromAttributes(element, Unwrap(id))

SeqRange(s) == {s[i] : i \in 1..Len(s)}

\* parse_changeset without the test that ends the loop early: it reads to Eof.
RECURSIVE ParseToEofFrom(_, _, _, _)
ParseToEofFrom(archive, i, wanted, acc) ==
    IF i > Len(archive) THEN [status |-> "ok", changesets |-> acc, read |-> i - 1]
    ELSE LET r == ChangesetNewFromElement(archive[i], wanted)
         IN  IF r.status = "panic" THEN [status |-> "panic", changesets |-> acc, read |-> i]
             ELSE ParseToEofFrom(archive, i + 1, wanted,
                                 IF r.status = "some"
                                 THEN Append(acc, r.changeset[1]) ELSE acc)

parse_changeset_ToEof(archive, list) == ParseToEofFrom(archive, 1, SeqRange(list), <<>>)

\* parse_changeset: stops as soon as every wanted id was parsed, else reads the
\* next <changeset> of the archive until Eof. read: the elements it has read.
RECURSIVE ParseChangesetFrom(_, _, _, _)
ParseChangesetFrom(archive, i, wanted, acc) ==
    IF wanted \subseteq {acc[j].id : j \in 1..Len(acc)}
    THEN [status |-> "ok", changesets |-> acc, read |-> i - 1]
    ELSE IF i > Len(archive) THEN [status |-> "ok", changesets |-> acc, read |-> i - 1]
    ELSE LET r == ChangesetNewFromElement(archive[i], wanted)
         IN  IF r.status = "panic" THEN [status |-> "panic", changesets |-> acc, read |-> i]
             ELSE ParseChangesetFrom(archive, i + 1, wanted,
                                     IF r.status = "some"
                                     THEN Append(acc, r.changeset[1]) ELSE acc)

parse_changeset(archive, list) == ParseChangesetFrom(archive, 1, SeqRange(list), <<>>)

\* find_changesets_in_cache that falls back to the last parsed changeset.
find_changesets_in_cache_Fallback(css, id) ==
    IF \E i \in 1..Len(css) : css[i].id = id
    THEN Some(css[CHOOSE i \in 1..Len(css) :
                    css[i].id = id /\ \A j \in 1..(i - 1) : css[j].id # id])
    ELSE IF css # <<>> THEN Some(css[Len(css)]) ELSE None

\* find_changesets_in_cache: the first changeset with the id, if any.
find_changesets_in_cache(css, id) ==
    IF \E i \in 1..Len(css) : css[i].id = id
    THEN Some(css[CHOOSE i \in 1..Len(css) :
                    css[i].id = id /\ \A j \in 1..(i - 1) : css[j].id # id])
    ELSE None

\* An entry of the changesets directory. named: the file name has the form
\* changesets-<N>.osm.zst; numeric: the name, trimmed of ".osm.zst" at its end
\* and of "changesets-" at its start, parses as u64, to n.
DirEntry(named, numeric, n, data) ==
    [named |-> named, numeric |-> numeric, n |-> n, data |-> data]

\* The directory scan, as the set of its possible outcomes (read_dir lists the
\* entries in no particular order): an entry whose trimmed name parses replaces
\* the pick when its number exceeds last_highest_id, which starts at 0. None:
\* changeset_path stays the empty string.
LatestArchive(d) ==
    LET cand == {f \in d : f.numeric /\ f.n > 0}
    IN  IF cand = {} THEN {None}
        ELSE {Some(f) : f \in {g \in cand : \A h \in cand : h.n <= g.n}}

\* BTreeMap::keys(): ascending.
RECURSIVE SortedSeq(_)
SortedSeq(S) ==
    IF S = {} THEN <<>>
    ELSE LET m == CHOOSE x \in S : \A y \in S : x <= y
         IN  <<m>> \o SortedSeq(S \ {m})

\* changeset_list: keys of the created/modified map chained with keys of the deleted map.
ChangesetList(am, dl) == SortedSeq(DOMAIN am) \o SortedSeq(DOMAIN dl)

-----------------------------------------------------------------------------
(* The git write path *)

WorkDir == "repo"
\* repository_folder.join(name)
JoinWorkDir(name) == <<WorkDir, name>>
\* strip_prefix(workdir) when the path starts with it
RelativePath(path) == IF path[1] = WorkDir THEN path[2] ELSE path[1] \o "/" \o path[2]

Signature(name, email, seconds) == [name |-> name, email |-> email, time |-> seconds]

\* Signature::now("osm-git-replay", "osm-git-replay@localhost"); the wall clock
\* reads the second the run started at.
DefaultCommitter == Signature("osm-git-replay", "osm-git-replay@localhost", 1600000000)

ReadmeName == "README.md"
ReadmeContent ==
    [type |-> "text", file_generator |-> None, file_version |-> FILE_VERSION,
     legacy_object_version |-> None, lat |-> None, lon |-> None, tags |-> <<>>]

\* The tree of the HEAD commit, or the empty tree when HEAD is unborn.
HeadTree(h) == IF Len(h) > 0 THEN h[Len(h)].tree ELSE <<>>

\* StageAdded that gives up at the first path that is missing on disk.
RECURSIVE StageAdded_StopAtMissing(_, _, _)
StageAdded_StopAtMissing(tree, st, added) ==
    IF added = <<>> THEN tree
    ELSE LET name == RelativePath(Head(added))
         IN  IF name \notin DOMAIN st THEN tree
             ELSE StageAdded_StopAtMissing(Append(tree, [filename |-> name, oid |-> st[name]]),
                                           st, Tail(added))

\* The loop over added_or_changed_files: a blob entry is pushed for every path
\* that exists on disk; a missing path is skipped with a warning.
RECURSIVE StageAdded(_, _, _)
StageAdded(tree, st, added) ==
    IF added = <<>> THEN tree
    ELSE LET name == RelativePath(Head(added))
         IN  StageAdded(IF name \in DOMAIN st
                        THEN Append(tree, [filename |-> name, oid |-> st[name]])
                        ELSE tree,
                        st, Tail(added))

\* The loop over removed_files: tree.entries.retain(filename != path).
RECURSIVE UnstageRemoved(_, _)
UnstageRemoved(tree, removed) ==
    IF removed = <<>> THEN tree
    ELSE UnstageRemoved(SelectSeq(tree, LAMBDA e : e.filename # RelativePath(Head(removed))),
                        Tail(removed))

\* commit() that rewrites the HEAD commit instead of adding a child to it.
commit_Amend(h, st, added, removed, message, author, committer) ==
    LET c == [tree |-> UnstageRemoved(StageAdded(HeadTree(h), st, added), removed),
              parents |-> IF Len(h) > 1 THEN <<Len(h) - 1>> ELSE <<>>,
              message |-> message,
              author |-> author,
              committer |-> committer]
    IN  IF Len(h) > 0 THEN [h EXCEPT ![Len(h)] = c] ELSE <<c>>

\* commit() building its tree from the empty tree instead of the HEAD tree.
commit_FromEmptyTree(h, st, added, removed, message, author, committer) ==
    Append(h, [tree |-> UnstageRemoved(StageAdded(<<>>, st, added), removed),
               parents |-> IF Len(h) > 0 THEN <<Len(h)>> ELSE <<>>,
               message |-> message,
               author |-> author,
               committer |-> committer])

\* commit(): the new history, the new commit last; its parent is the old HEAD.
commit(h, st, added, removed, message, author, committer) ==
    Append(h, [tree |-> UnstageRemoved(StageAdded(HeadTree(h), st, added), removed),
               parents |-> IF Len(h) > 0 THEN <<Len(h)>> ELSE <<>>,
               message |-> message,
               author |-> author,
               committer |-> committer])

\* The paths handed to commit() for the objects of a map entry.
RECURSIVE PathsOf(_)
PathsOf(objs) ==
    IF objs = <<>> THEN <<>>
    ELSE <<JoinWorkDir(ObjectFileName(Head(objs)))>> \o PathsOf(Tail(objs))

ObjectsFor(m, cs) == IF cs \in DOMAIN m THEN m[cs] ELSE <<>>

\* AuthorOf that always takes created_at as the commit time.
AuthorOf_CreatedAt(changeset) ==
    LET commit_time == ParseIso8601(changeset.created_at)
    IN  IF IsSome(commit_time)
        THEN Some(Signature(changeset.user, changeset.user \o "@osm", Unwrap(commit_time)))
        ELSE None

\* The author signature of a changeset's commit; None when the time does not parse.
AuthorOf(changeset) ==
    LET changeset_time == IF IsSome(changeset.closed_at)
                          THEN Unwrap(changeset.closed_at) ELSE changeset.created_at
        commit_time == ParseIso8601(changeset_time)
    IN  IF IsSome(commit_time)
        THEN Some(Signature(changeset.user, changeset.user \o "@osm", Unwrap(commit_time)))
        ELSE None

\* The commit message: the comment tag trimmed, or "".
CommentOf(changeset) ==
    IF "comment" \in DOMAIN changeset.tags THEN Trim(changeset.tags["comment"]) ELSE ""

\* The orders a HashMap may iterate its keys in.
KeyOrders(m) ==
    {s \in [1..Cardinality(DOMAIN m) -> DOMAIN m] : \A i, j \in DOMAIN s : i # j => s[i] # s[j]}

\* The note body as lines: the id line, then "key: value" per tag with a
\* non-blank key, in the iteration order of the tags.
RECURSIVE TagLines(_, _)
TagLines(tags, order) ==
    IF order = <<>> THEN <<>>
    ELSE (IF Trim(Head(order)) = "" THEN <<>>
          ELSE << Head(order) \o ": " \o tags[Head(order)] >>)
         \o TagLines(tags, Tail(order))

NoteBody(changeset, order) ==
    << "Legacy Changeset ID: " \o ToString(changeset.id) >> \o TagLines(changeset.tags, order)

-----------------------------------------------------------------------------
(* The driver: init_git_repository, then convert_objects_to_git per change file *)

EmptyMap == <<>>

\* No archive looked up yet; the download loops of main() not started.
IndexAtRest ==
    /\ changeset_path = <<>>
    /\ archive_read = 0
    /\ yaml_object = <<>>
    /\ store_at_call = EmptyMap
ReaderAtRest ==
    /\ events = <<>>
    /\ event_position = 0
    /\ event = <<>>
    /\ open_element = ""
    /\ debug_xml = FALSE
DriverAtRest ==
    /\ changeset_position = <<0, 0, 0>>
    /\ data_position = <<0, 0, 0>>
    /\ data_position_middle_incremented = FALSE
    /\ data_position_top_incremented = FALSE
    /\ cache = <<>>
    /\ server = {}
    /\ replayed = <<>>
    /\ changeset_position_middle_incremented = FALSE
    /\ changeset_position_top_incremented = FALSE
    /\ changeset_cache = {}
    /\ changeset_server = {}
    /\ changeset_files = <<>>
    /\ requested = {}

\* The signature of an earlier run of the program (Signature::now at that time).
EarlierCommitter == Signature("osm-git-replay", "osm-git-replay@localhost", 1500000000)

\* The working tree and the history an earlier run left behind after its
\* init_git_repository: README.md and its commit.
SeededStore == WriteFile(EmptyMap, ReadmeName, ReadmeContent)
SeededHead ==
    commit(<<>>, SeededStore, <<JoinWorkDir(ReadmeName)>>, <<>>,
           "Create the README.md", EarlierCommitter, EarlierCommitter)

\* The state main() starts init_git_repository in, for a changesets directory
\* holding one archive: git_repo_path is absent, holds the repository of an
\* earlier run, or holds something that is no repository.
InitWith(archive) ==
    /\ pc = "start"
    /\ repo_path \in {"absent", "repository", "other"}
    /\ file_kind = "none"
    /\ budget = MaxDeltas
    /\ store = IF repo_path = "repository" THEN SeededStore ELSE EmptyMap
    /\ head = IF repo_path = "repository" THEN SeededHead ELSE <<>>
    /\ notes = {}
    /\ dir = {DirEntry(TRUE, TRUE, 5, archive)}
    /\ grouping = "none"
    /\ pending = <<>>
    /\ addmod = EmptyMap
    /\ del = EmptyMap
    /\ changeset_list = <<>>
    /\ changesets = <<>>
    /\ idx = 0
    /\ result = "none"
    /\ emitted = <<>>
    /\ resolvedPairs = 0
    /\ fileElems = <<>>
    /\ IndexAtRest
    /\ ReaderAtRest
    /\ DriverAtRest

Init == InitWith(DefaultArchive)

\* init_git_repository that seeds the README commit whether or not the path exists.
InitGitRepository_AlwaysSeeds ==
    /\ pc = "start"
    /\ IF repo_path = "other"
       THEN /\ pc' = "exit" /\ result' = "err"
            /\ UNCHANGED <<repo_path, store, head>>
       ELSE /\ store' = WriteFile(store, ReadmeName, ReadmeContent)
            /\ head' = commit(head, store', <<JoinWorkDir(ReadmeName)>>, <<>>,
                              "Create the README.md", DefaultCommitter, DefaultCommitter)
            /\ repo_path' = "repository"
            /\ pc' = "idle" /\ result' = result
    /\ UNCHANGED <<file_kind, budget, notes, dir, grouping, pending, addmod, del,
                   changeset_list, changesets, idx, emitted, resolvedPairs, fileElems>>
    /\ UNCHANGED indexVars
    /\ UNCHANGED driverVars

\* init_git_repository: an existing path is opened (an error when it is no
\* repository ends main), a missing one is initialised with README.md and its commit.
InitGitRepository ==
    /\ pc = "start"
    /\ IF repo_path = "repository"
       THEN /\ pc' = "idle" /\ result' = result
            /\ UNCHANGED <<repo_path, store, head>>
       ELSE IF repo_path = "other"
       THEN /\ pc' = "exit" /\ result' = "err"
            /\ UNCHANGED <<repo_path, store, head>>
       ELSE /\ store' = WriteFile(store, ReadmeName, ReadmeContent)
            /\ head' = commit(head, store', <<JoinWorkDir(ReadmeName)>>, <<>>,
                              "Create the README.md", DefaultCommitter, DefaultCommitter)
            /\ repo_path' = "repository"
            /\ pc' = "idle" /\ result' = result
    /\ UNCHANGED <<file_kind, budget, notes, dir, grouping, pending, addmod, del,
                   changeset_list, changesets, idx, emitted, resolvedPairs, fileElems>>
    /\ UNCHANGED indexVars
    /\ UNCHANGED driverVars

\* The locals of a call of convert_objects_to_git, as they are when it starts.
FreshPass ==
    /\ grouping' = "none"
    /\ pending' = <<>>
    /\ addmod' = EmptyMap
    /\ del' = EmptyMap
    /\ changeset_list' = <<>>
    /\ changesets' = <<>>
    /\ idx' = 0
    /\ emitted' = <<>>
    /\ fileElems' = <<>>
    /\ changeset_path' = <<>>
    /\ archive_read' = 0
    /\ yaml_object' = <<>>
    /\ store_at_call' = store

\* The data loop of main() hands over the next change file: after init, and
\* after a call that returned Ok (an Err leaves main with '?').
DriverReady == pc = "idle" \/ (pc = "done" /\ result = "ok")

\* SkipFile that reports a file that does not decompress as an error.
SkipFile_CorruptIsError ==
    /\ DriverReady
    /\ \E kind \in {"empty", "corrupt", "empty_text"} :
        /\ file_kind' = kind
        /\ pc' = "done"
        /\ result' = IF kind = "corrupt" THEN "err" ELSE "ok"
    /\ FreshPass
    /\ UNCHANGED <<repo_path, budget, store, head, notes, dir, resolvedPairs>>
    /\ UNCHANGED driverVars

\* A change file that is empty, does not decompress, or decompresses to
\* nothing: the call returns Ok at once.
SkipFile ==
    /\ DriverReady
    /\ \E kind \in {"empty", "corrupt", "empty_text"} :
        /\ file_kind' = kind
        /\ pc' = "done"
        /\ result' = "ok"
    /\ FreshPass
    /\ UNCHANGED <<repo_path, budget, store, head, notes, dir, resolvedPairs>>
    /\ UNCHANGED driverVars

\* The driver hands a change file that decompresses to some text to
\* convert_objects_to_git, which starts its event loop.
StartPass ==
    /\ DriverReady
    /\ file_kind' = "xml"
    /\ pc' = "top"
    /\ result' = "none"
    /\ FreshPass
    /\ UNCHANGED <<repo_path, budget, store, head, notes, dir, resolvedPairs>>
    /\ UNCHANGED driverVars

\* read_event_into returns an error, in the outer or in the inner loop: '?'
\* returns it from convert_objects_to_git; the objects of an open grouping are
\* dropped unapplied.
ReadXmlError ==
    /\ pc \in {"top", "group"}
    /\ file_kind' = "broken_xml"
    /\ pc' = "done"
    /\ result' = "err"
    /\ grouping' = "none"
    /\ pending' = <<>>
    /\ UNCHANGED <<repo_path, budget, store, head, notes, dir, addmod, del,
                   changeset_list, changesets, idx, emitted, resolvedPairs, fileElems>>
    /\ UNCHANGED indexVars
    /\ UNCHANGED driverVars

\* The outer loop reads the start of a <create>, <modify> or <delete>.
OpenGrouping ==
    /\ pc = "top"
    /\ \E a \in {"create", "modify", "delete"} : grouping' = a
    /\ pending' = <<>>
    /\ pc' = "group"
    /\ UNCHANGED <<repo_path, file_kind, budget, store, head, notes, dir, addmod, del,
                   changeset_list, changesets, idx, result, emitted, resolvedPairs,
                   fileElems>>
    /\ UNCHANGED indexVars
    /\ UNCHANGED driverVars

\* The inner loop reads a <node|way|relation> and runs its constructor.
ReadObject ==
    /\ pc = "group"
    /\ budget > 0
    /\ \E e \in ChangeElements :
        LET r == NewFromElement(e)
        IN  /\ fileElems' = Append(fileElems, [action |-> grouping, elem |-> e])
            /\ IF r.status = "panic"
               THEN pc' = "panicked" /\ pending' = pending
               ELSE pc' = pc /\ pending' = Append(pending, r.obj[1])
    /\ budget' = budget - 1
    /\ UNCHANGED <<repo_path, file_kind, store, head, notes, dir, grouping, addmod, del,
                   changeset_list, changesets, idx, result, emitted, resolvedPairs>>
    /\ UNCHANGED indexVars
    /\ UNCHANGED driverVars

\* The inner loop reads the end of the grouping; its objects are applied in order.
CloseGrouping ==
    /\ pc = "group"
    /\ LET ps == ApplyAll(grouping, PassState(store, addmod, del, FALSE), pending)
       IN  /\ store' = ps.store
           /\ addmod' = ps.addmod
           /\ del' = ps.del
           /\ IF ps.err THEN pc' = "done" /\ result' = "err"
              ELSE pc' = "top" /\ result' = result
    /\ grouping' = "none"
    /\ pending' = <<>>
    /\ UNCHANGED <<repo_path, file_kind, budget, head, notes, dir, changeset_list,
                   changesets, idx, emitted, resolvedPairs, fileElems>>
    /\ UNCHANGED indexVars
    /\ UNCHANGED driverVars

\* Eof: the changeset list is built, the newest archive is opened and parsed.
ReadEof ==
    /\ pc = "top"
    /\ \E file \in LatestArchive(dir) :
        LET list == ChangesetList(addmod, del)
            r == parse_changeset(Unwrap(file).data, list)
        IN  /\ changeset_list' = list
            /\ changeset_path' = file
            /\ IF ~IsSome(file)
               THEN /\ pc' = "done" /\ result' = "err"
                    /\ UNCHANGED <<changesets, idx, resolvedPairs, archive_read>>
               ELSE IF r.status = "panic"
               THEN /\ pc' = "panicked" /\ result' = result
                    /\ archive_read' = r.read
                    /\ UNCHANGED <<changesets, idx, resolvedPairs>>
               ELSE /\ pc' = "commits" /\ result' = result
                    /\ changesets' = r.changesets
                    /\ archive_read' = r.read
                    /\ idx' = 1
                    /\ resolvedPairs' = resolvedPairs + Cardinality(
                         {c \in SeqRange(list) : IsSome(find_changesets_in_cache(r.changesets, c))})
    /\ UNCHANGED <<repo_path, file_kind, budget, store, head, notes, dir, grouping,
                   pending, addmod, del, emitted, fileElems, yaml_object, store_at_call>>
    /\ UNCHANGED driverVars

\* One iteration of the loop over changeset_list.
CommitStep ==
    /\ pc = "commits"
    /\ idx <= Len(changeset_list)
    /\ LET changeset_id == changeset_list[idx]
           found == find_changesets_in_cache(changesets, changeset_id)
       IN  IF ~IsSome(found)
           THEN /\ idx' = idx + 1
                /\ UNCHANGED <<pc, result, head, notes, emitted>>
           ELSE
             LET changeset == Unwrap(found)
                 author == AuthorOf(changeset)
                 added == PathsOf(ObjectsFor(addmod, changeset.id))
                 removed == PathsOf(ObjectsFor(del, changeset.id))
             IN  IF ~IsSome(author)
                 THEN /\ pc' = "done" /\ result' = "err"
                      /\ UNCHANGED <<idx, head, notes, emitted>>
                 ELSE /\ head' = commit(head, store, added, removed, CommentOf(changeset),
                                        Unwrap(author), DefaultCommitter)
                      /\ \E order \in KeyOrders(changeset.tags) :
                            notes' = notes \cup {[target |-> Len(head'),
                                                  body |-> NoteBody(changeset, order),
                                                  author |-> Unwrap(author),
                                                  committer |-> DefaultCommitter]}
                      /\ emitted' = Append(emitted, [changeset |-> changeset.id,
                                                     added |-> added, removed |-> removed,
                                                     oid |-> Len(head')])
                      /\ idx' = idx + 1
                      /\ UNCHANGED <<pc, result>>
    /\ UNCHANGED <<repo_path, file_kind, budget, store, dir, grouping, pending, addmod,
                   del, changeset_list, changesets, resolvedPairs, fileElems>>
    /\ UNCHANGED indexVars
    /\ UNCHANGED driverVars

\* The loop is over: Ok(()).
FinishPass ==
    /\ pc = "commits"
    /\ idx > Len(changeset_list)
    /\ pc' = "done"
    /\ result' = "ok"
    /\ UNCHANGED <<repo_path, file_kind, budget, store, head, notes, dir, grouping,
                   pending, addmod, del, changeset_list, changesets, idx, emitted,
                   resolvedPairs, fileElems>>
    /\ UNCHANGED indexVars
    /\ UNCHANGED driverVars

Next ==
    \/ InitGitRepository
    \/ SkipFile
    \/ StartPass
    \/ OpenGrouping
    \/ ReadXmlError
    \/ ReadObject
    \/ CloseGrouping
    \/ ReadEof
    \/ CommitStep
    \/ FinishPass

Spec == Init /\ [][Next]_vars

\* The same run against the archive with the unparsable changeset time.
InitBadTime == InitWith(BadTimeArchive)
SpecBadTime == InitBadTime /\ [][Next]_vars

-----------------------------------------------------------------------------
(* The data loop of main(): which change file each iteration hands over *)

\* Calls of convert_objects_to_git a run of the data loop is followed for, and
\* object elements its change files hold in all.
MaxReplays == 3
MaxDriverDeltas == 1

\* A triple formatted as {:03}/{:03}/{:03} by a loop ("changesets" or "data")
\* into a cache path or a URL, with the data position at that time.
Request(loop, use, triple, position) ==
    [loop |-> loop, use |-> use, triple |-> triple, position |-> position]

\* The replication sequences <<top, middle, bottom>> a server may hold.
ServerSequences == {<<0, 0, 0>>, <<0, 0, 1>>, <<0, 1, 0>>, <<1, 0, 0>>}

\* The state the data loop starts in: the repository is open, the changeset
\* loop has ended at <<top, 0, 0>> after its last 404, the data position is
\* 000/000/000, and the cache holds nothing or a data file of an earlier run. A
\* cached file is identified by the replication sequence its bytes came from.
DriverInit ==
    /\ pc = "idle"
    /\ repo_path = "repository"
    /\ file_kind = "none"
    /\ budget = MaxDriverDeltas
    /\ store = SeededStore
    /\ head = SeededHead
    /\ notes = {}
    /\ dir = {DirEntry(TRUE, TRUE, 5, DefaultArchive)}
    /\ grouping = "none"
    /\ pending = <<>>
    /\ addmod = EmptyMap
    /\ del = EmptyMap
    /\ changeset_list = <<>>
    /\ changesets = <<>>
    /\ idx = 0
    /\ result = "none"
    /\ emitted = <<>>
    /\ resolvedPairs = 0
    /\ fileElems = <<>>
    /\ IndexAtRest
    /\ ReaderAtRest
    /\ changeset_position \in {<<1, 0, 0>>, <<2, 0, 0>>}
    /\ data_position = <<0, 0, 0>>
    /\ data_position_middle_incremented = FALSE
    /\ data_position_top_incremented = FALSE
    /\ server \in SUBSET ServerSequences
    /\ cache \in {<<>>, changeset_position :> <<0, 0, 0>>}
    /\ replayed = <<>>
    /\ changeset_position_middle_incremented = FALSE
    /\ changeset_position_top_incremented = TRUE
    /\ changeset_cache = {}
    /\ changeset_server = {}
    /\ changeset_files = <<>>
    /\ requested = {}

\* The call convert_objects_to_git(.., &data) of the data loop, for the bytes
\* of replication sequence seq: the call returns at once for a file that holds
\* nothing, and starts its event loop otherwise.
ConvertCall(seq) ==
    /\ replayed' = Append(replayed, seq)
    /\ \E kind \in {"empty", "corrupt", "empty_text", "xml"} :
        /\ file_kind' = kind
        /\ IF kind = "xml" THEN pc' = "top" /\ result' = "none"
                           ELSE pc' = "done" /\ result' = "ok"
    /\ FreshPass

\* The data position after a file was handed over.
NextBottom ==
    /\ data_position' = [data_position EXCEPT ![3] = @ + 1]
    /\ data_position_middle_incremented' = FALSE
    /\ data_position_top_incremented' = FALSE

\* One iteration of the data loop. The cache path is built from the changeset
\* position, the download URL from the data position.
DataLoop ==
    /\ DriverReady
    /\ Len(replayed) < MaxReplays
    /\ LET cache_file_path == changeset_position
           lookup == Request("data", "cache", cache_file_path, data_position)
           download == Request("data", "url", data_position, data_position)
       IN  IF cache_file_path \in DOMAIN cache
           THEN /\ ConvertCall(cache[cache_file_path])
                /\ NextBottom
                /\ requested' = requested \cup {lookup}
                /\ UNCHANGED cache
           ELSE IF data_position \notin server
           THEN /\ requested' = requested \cup {lookup, download}
                /\ IF data_position_top_incremented
                   THEN /\ pc' = "finished" /\ result' = "ok"
                        /\ UNCHANGED <<data_position, data_position_middle_incremented,
                                       data_position_top_incremented>>
                   ELSE IF ~data_position_middle_incremented /\ data_position[3] # 0
                   THEN /\ data_position' = <<data_position[1], data_position[2] + 1, 0>>
                        /\ data_position_middle_incremented' = TRUE
                        /\ data_position_top_incremented' = FALSE
                        /\ UNCHANGED <<pc, result>>
                   ELSE /\ data_position' = <<data_position[1] + 1, 0, 0>>
                        /\ data_position_middle_incremented' = FALSE
                        /\ data_position_top_incremented' = TRUE
                        /\ UNCHANGED <<pc, result>>
                /\ UNCHANGED <<file_kind, grouping, pending, addmod, del, changeset_list,
                               changesets, idx, emitted, fileElems, cache, replayed>>
                /\ UNCHANGED indexVars
           ELSE /\ requested' = requested \cup {lookup, download}
                /\ cache' = (cache_file_path :> data_position) @@ cache
                /\ ConvertCall(data_position)
                /\ NextBottom
    /\ UNCHANGED <<repo_path, budget, store, head, notes, dir, resolvedPairs,
                   changeset_position, server>>
    /\ UNCHANGED changesetLoopVars
    /\ UNCHANGED readerVars

DriverNext ==
    \/ DataLoop
    \/ OpenGrouping
    \/ ReadXmlError
    \/ ReadObject
    \/ CloseGrouping
    \/ ReadEof
    \/ CommitStep
    \/ FinishPass

SpecDriver == DriverInit /\ [][DriverNext]_vars

-----------------------------------------------------------------------------
(* The changeset loop of main(): which changeset file each iteration asks for *)

\* Changeset files a run of the changeset loop is followed for.
MaxChangesetFiles == 3

\* The positions --start-changesets may name (three digits each), and the
\* changeset sequences a server may hold.
StartPositions == {<<0, 0, 0>>, <<0, 0, 998>>, <<0, 999, 0>>, <<999, 0, 0>>}
ChangesetSequences ==
    {<<0, 0, 0>>, <<0, 0, 1>>, <<0, 0, 998>>, <<0, 0, 999>>, <<0, 999, 0>>}

\* The state the changeset loop starts in: the repository is open, the position
\* is the one of --start-changesets, the cache holds nothing or the first file.
ChangesetInit ==
    /\ pc = "changesets"
    /\ repo_path = "repository"
    /\ file_kind = "none"
    /\ budget = 0
    /\ store = SeededStore
    /\ head = SeededHead
    /\ notes = {}
    /\ dir = {DirEntry(TRUE, TRUE, 5, DefaultArchive)}
    /\ grouping = "none"
    /\ pending = <<>>
    /\ addmod = EmptyMap
    /\ del = EmptyMap
    /\ changeset_list = <<>>
    /\ changesets = <<>>
    /\ idx = 0
    /\ result = "none"
    /\ emitted = <<>>
    /\ resolvedPairs = 0
    /\ fileElems = <<>>
    /\ IndexAtRest
    /\ ReaderAtRest
    /\ changeset_position \in StartPositions
    /\ changeset_position_middle_incremented = FALSE
    /\ changeset_position_top_incremented = FALSE
    /\ changeset_server \in SUBSET ChangesetSequences
    /\ changeset_cache \in {{}, {changeset_position}}
    /\ changeset_files = <<>>
    /\ data_position = <<0, 0, 0>>
    /\ data_position_middle_incremented = FALSE
    /\ data_position_top_incremented = FALSE
    /\ cache = <<>>
    /\ server = {}
    /\ replayed = <<>>
    /\ requested = {}

\* The changeset position after a file was parsed and its changesets collected.
NextChangesetBottom ==
    /\ changeset_files' = Append(changeset_files, changeset_position)
    /\ changeset_position' = [changeset_position EXCEPT ![3] = @ + 1]
    /\ changeset_position_middle_incremented' = FALSE
    /\ changeset_position_top_incremented' = FALSE

\* One iteration of the changeset loop: the cached file, or the download, which
\* on 404 moves the position on or, after a 404 at a new top, ends the loop.
ChangesetLoop ==
    /\ pc = "changesets"
    /\ Len(changeset_files) < MaxChangesetFiles
    /\ LET lookup == Request("changesets", "cache", changeset_position, data_position)
           download == Request("changesets", "url", changeset_position, data_position)
       IN  IF changeset_position \in changeset_cache
           THEN /\ requested' = requested \cup {lookup}
                /\ NextChangesetBottom
                /\ UNCHANGED <<pc, changeset_cache>>
           ELSE IF changeset_position \notin changeset_server
           THEN /\ requested' = requested \cup {lookup, download}
                /\ IF changeset_position_top_incremented
                   THEN /\ pc' = "idle"
                        /\ UNCHANGED <<changeset_position,
                                       changeset_position_middle_incremented,
                                       changeset_position_top_incremented>>
                   ELSE IF ~changeset_position_middle_incremented /\ changeset_position[3] # 0
                   THEN /\ changeset_position' =
                              <<changeset_position[1], changeset_position[2] + 1, 0>>
                        /\ changeset_position_middle_incremented' = TRUE
                        /\ changeset_position_top_incremented' = FALSE
                        /\ pc' = pc
                   ELSE /\ changeset_position' = <<changeset_position[1] + 1, 0, 0>>
                        /\ changeset_position_middle_incremented' = FALSE
                        /\ changeset_position_top_incremented' = TRUE
                        /\ pc' = pc
                /\ UNCHANGED <<changeset_cache, changeset_files>>
           ELSE /\ requested' = requested \cup {lookup, download}
                /\ changeset_cache' = changeset_cache \cup {changeset_position}
                /\ NextChangesetBottom
                /\ pc' = pc
    /\ UNCHANGED <<repo_path, file_kind, budget, store, head, notes, dir, grouping,
                   pending, addmod, del, changeset_list, changesets, idx, result,
                   emitted, resolvedPairs, fileElems, changeset_server>>
    /\ UNCHANGED indexVars
    /\ UNCHANGED <<data_position, data_position_middle_incremented,
                   data_position_top_incremented, cache, server, replayed>>
    /\ UNCHANGED readerVars

ChangesetNext == ChangesetLoop

SpecChangesets == ChangesetInit /\ [][ChangesetNext]_vars

-----------------------------------------------------------------------------
(* The readers, event by event: the loops of convert_objects_to_git, of the
   object constructors, of parse_changeset and of Changeset::new_from_element,
   over an input that may end anywhere. An event is the name of a start tag,
   "/" and the name of an end tag, or "text" (a line break). The reader
   yields Eof, again and again, once the input is used up. *)

Eof == "Eof"
StartNames == {"osmChange", "create", "modify", "delete", "node", "way", "relation",
               "tag", "nd", "bounds", "osm", "changeset"}
EndOf(name) == "/" \o name
IsStart(e) == e \in StartNames

\* Well-formed documents; the inputs are their prefixes, the documents included.
ChangeDocuments ==
    { << "osmChange", "create", "text", "node", "tag", "/tag", "/node", "/create",
         "/osmChange" >>,
      << "osmChange", "modify", "way", "nd", "/nd", "/way", "/modify", "/osmChange" >>,
      << "osmChange", "delete", "bounds", "/bounds", "relation", "/relation",
         "/delete", "/osmChange" >> }
ArchiveDocuments ==
    { << "osm", "changeset", "tag", "/tag", "/changeset", "changeset", "/changeset",
         "/osm" >> }
Prefixes(docs) == UNION {{SubSeq(d, 1, n) : n \in 0..Len(d)} : d \in docs}

\* The id every <changeset> of the archive documents has.
ArchiveId == 100

\* The event read_event_into yields next.
NextEvent == IF event_position < Len(events) THEN events[event_position + 1] ELSE Eof

\* read_to_end(name): the position after the end tag that closes the element
\* just opened, nested elements of the same name counted; 0 if the input ends
\* first (an error).
RECURSIVE ReadToEndFrom(_, _, _)
ReadToEndFrom(i, name, depth) ==
    IF i > Len(events) THEN 0
    ELSE IF events[i] = name THEN ReadToEndFrom(i + 1, name, depth + 1)
    ELSE IF events[i] = EndOf(name)
         THEN IF depth = 0 THEN i ELSE ReadToEndFrom(i + 1, name, depth - 1)
    ELSE ReadToEndFrom(i + 1, name, depth)

read_to_end(name) == ReadToEndFrom(event_position + 1, name, 0)

\* What the reader actions leave alone.
ReaderFrame ==
    /\ UNCHANGED <<repo_path, file_kind, budget, store, head, notes, dir, addmod, del,
                   idx, emitted, resolvedPairs, fileElems>>
    /\ UNCHANGED indexVars
    /\ UNCHANGED <<changeset_position, data_position, data_position_middle_incremented,
                   data_position_top_incremented, cache, server, replayed, requested>>
    /\ UNCHANGED changesetLoopVars

\* A change file is handed to convert_objects_to_git, or an archive to
\* parse_changeset with the list of wanted ids.
ReaderInit ==
    /\ \/ /\ pc = "convert"
          /\ events \in Prefixes(ChangeDocuments)
          /\ changeset_list = <<>>
       \/ /\ pc = "parse_changeset"
          /\ events \in Prefixes(ArchiveDocuments)
          /\ changeset_list \in {<<>>, <<100>>, <<200>>}
    /\ event_position = 0
    /\ event = <<>>
    /\ open_element = ""
    /\ debug_xml = FALSE
    /\ repo_path = "repository"
    /\ file_kind = "xml"
    /\ budget = 0
    /\ store = EmptyMap
    /\ head = <<>>
    /\ notes = {}
    /\ dir = {}
    /\ grouping = "none"
    /\ pending = <<>>
    /\ addmod = EmptyMap
    /\ del = EmptyMap
    /\ changesets = <<>>
    /\ idx = 0
    /\ result = "none"
    /\ emitted = <<>>
    /\ resolvedPairs = 0
    /\ fileElems = <<>>
    /\ IndexAtRest
    /\ changeset_position = <<0, 0, 0>>
    /\ data_position = <<0, 0, 0>>
    /\ data_position_middle_incremented = FALSE
    /\ data_position_top_incremented = FALSE
    /\ cache = <<>>
    /\ server = {}
    /\ replayed = <<>>
    /\ changeset_position_middle_incremented = FALSE
    /\ changeset_position_top_incremented = FALSE
    /\ changeset_cache = {}
    /\ changeset_server = {}
    /\ changeset_files = <<>>
    /\ requested = {}

\* read_event_into at the head of the loops of convert_objects_to_git, of a
\* grouping, of a constructor and of Changeset::new_from_element.
ReadEvent ==
    /\ pc \in {"convert", "grouping", "constructor", "new_from_element"}
    /\ event = None
    /\ event' = Some(NextEvent)
    /\ event_position' = IF event_position < Len(events)
                         THEN event_position + 1 ELSE event_position
    /\ UNCHANGED <<pc, grouping, pending, changeset_list, changesets, result,
                   events, open_element, debug_xml>>
    /\ ReaderFrame

\* The head of the loop of parse_changeset: it ends once every wanted id is
\* parsed, and reads the next event otherwise.
ReadArchiveEvent ==
    /\ pc = "parse_changeset"
    /\ event = None
    /\ IF SeqRange(changeset_list) \subseteq {changesets[j].id : j \in 1..Len(changesets)}
       THEN /\ pc' = "parsed" /\ result' = "ok"
            /\ UNCHANGED <<event, event_position>>
       ELSE /\ event' = Some(NextEvent)
            /\ event_position' = IF event_position < Len(events)
                                 THEN event_position + 1 ELSE event_position
            /\ UNCHANGED <<pc, result>>
    /\ UNCHANGED <<grouping, pending, changeset_list, changesets, events, open_element,
                   debug_xml>>
    /\ ReaderFrame

\* The loop of convert_objects_to_git: a grouping opens its own loop, Eof ends
\* the loop, anything else is passed over.
ConvertEvent ==
    /\ pc = "convert"
    /\ event # None
    /\ LET e == Unwrap(event)
       IN  IF e \in {"create", "modify", "delete"}
           THEN pc' = "grouping" /\ grouping' = e /\ result' = result
           ELSE IF e = Eof
           THEN pc' = "parsed" /\ result' = "ok" /\ grouping' = grouping
           ELSE UNCHANGED <<pc, grouping, result>>
    /\ event' = None
    /\ UNCHANGED <<pending, changeset_list, changesets, events, event_position,
                   open_element, debug_xml>>
    /\ ReaderFrame

\* The loop of a grouping: its end tag ends it, an object element runs its
\* constructor, another element is skipped with read_to_end, a line break is
\* passed over, and any other event, Eof too, is written to debug.xml before
\* the loop goes on.
GroupingEvent ==
    /\ pc = "grouping"
    /\ event # None
    /\ LET e == Unwrap(event)
       IN  IF e = EndOf(grouping)
           THEN /\ pc' = "convert" /\ grouping' = "none" /\ pending' = <<>>
                /\ UNCHANGED <<open_element, event_position, result, debug_xml>>
           ELSE IF e \in {"node", "way", "relation"}
           THEN /\ pc' = "constructor" /\ open_element' = e
                /\ UNCHANGED <<grouping, pending, event_position, result, debug_xml>>
           ELSE IF IsStart(e)
           THEN /\ IF read_to_end(e) = 0
                   THEN pc' = "parsed" /\ result' = "err" /\ event_position' = Len(events)
                   ELSE pc' = pc /\ result' = result /\ event_position' = read_to_end(e)
                /\ UNCHANGED <<grouping, pending, open_element, debug_xml>>
           ELSE /\ debug_xml' = (debug_xml \/ e # "text")
                /\ UNCHANGED <<pc, grouping, pending, open_element, event_position, result>>
    /\ event' = None
    /\ UNCHANGED <<changeset_list, changesets, events>>
    /\ ReaderFrame

\* The loop of Node, Way and Relation::new_from_element: the end tag of the
\* element ends it with Ok, a child element is read and skipped with
\* read_to_end, whose error is the constructor's (the grouping logs it and goes
\* on), a line break or </tag> is passed over, and any other event, Eof too, is
\* written to debug.xml before the loop goes on.
ConstructorEvent ==
    /\ pc = "constructor"
    /\ event # None
    /\ LET e == Unwrap(event)
       IN  IF e = EndOf(open_element)
           THEN /\ pc' = "grouping" /\ pending' = Append(pending, open_element)
                /\ open_element' = ""
                /\ UNCHANGED <<event_position, debug_xml>>
           ELSE IF IsStart(e)
           THEN /\ IF read_to_end(e) = 0
                   THEN pc' = "grouping" /\ open_element' = "" /\ event_position' = Len(events)
                   ELSE pc' = pc /\ open_element' = open_element
                        /\ event_position' = read_to_end(e)
                /\ UNCHANGED <<pending, debug_xml>>
           ELSE /\ debug_xml' = (debug_xml \/ e \notin {"text", "/tag"})
                /\ UNCHANGED <<pc, pending, open_element, event_position>>
    /\ event' = None
    /\ UNCHANGED <<grouping, changeset_list, changesets, events, result>>
    /\ ReaderFrame

\* The loop of parse_changeset: a <changeset> runs Changeset::new_from_element,
\* which returns None at once for an id that is not wanted; Eof ends the loop;
\* anything else is passed over.
ArchiveEvent ==
    /\ pc = "parse_changeset"
    /\ event # None
    /\ LET e == Unwrap(event)
       IN  IF e = "changeset" /\ ArchiveId \in SeqRange(changeset_list)
           THEN pc' = "new_from_element" /\ open_element' = e /\ result' = result
           ELSE IF e = Eof
           THEN pc' = "parsed" /\ result' = "ok" /\ open_element' = open_element
           ELSE UNCHANGED <<pc, open_element, result>>
    /\ event' = None
    /\ UNCHANGED <<grouping, pending, changeset_list, changesets, events, event_position,
                   debug_xml>>
    /\ ReaderFrame

\* The loop of Changeset::new_from_element: the end tag of the element ends it
\* with the changeset, a child element is looked at, a line break or </tag> is
\* passed over, and any other event, Eof too, is written to debug.xml before
\* the loop goes on.
ChangesetEvent ==
    /\ pc = "new_from_element"
    /\ event # None
    /\ LET e == Unwrap(event)
       IN  IF e = EndOf(open_element)
           THEN /\ pc' = "parse_changeset" /\ open_element' = ""
                /\ changesets' = Append(changesets, [id |-> ArchiveId])
                /\ debug_xml' = debug_xml
           ELSE /\ debug_xml' = (debug_xml \/ (~IsStart(e) /\ e \notin {"text", "/tag"}))
                /\ UNCHANGED <<pc, open_element, changesets>>
    /\ event' = None
    /\ UNCHANGED <<grouping, pending, changeset_list, events, event_position, result>>
    /\ ReaderFrame

ReaderNext ==
    \/ ReadEvent
    \/ ReadArchiveEvent
    \/ ConvertEvent
    \/ GroupingEvent
    \/ ConstructorEvent
    \/ ArchiveEvent
    \/ ChangesetEvent

\* The program is one thread that takes its next step as long as it has one.
SpecReader == ReaderInit /\ [][ReaderNext]_vars /\ WF_vars(ReaderNext)

-----------------------------------------------------------------------------
(* The object-store operations on their own: deltas applied to a drawn store *)

\* The objects the constructors build from the elements of the change files.
StoreObjects ==
    {NewFromElement(e).obj[1] : e \in {x \in ChangeElements : NewFromElement(x).status = "ok"}}

\* The stores the operations leave behind: README.md, and for each object file
\* either nothing or what a create or modify wrote.
StoreStates ==
    LET names == {ObjectFileName(o) : o \in StoreObjects}
        contents == {Serialize(o) : o \in StoreObjects}
    IN  UNION {{[n \in S \cup {ReadmeName} |-> IF n \in S THEN f[n] ELSE ReadmeContent] :
                    f \in [S -> contents]} : S \in SUBSET names}

StoreInit ==
    /\ pc = "store"
    /\ repo_path = "repository"
    /\ file_kind = "xml"
    /\ budget = MaxStoreOps
    /\ store \in StoreStates
    /\ head = SeededHead
    /\ notes = {}
    /\ dir = {DirEntry(TRUE, TRUE, 5, DefaultArchive)}
    /\ grouping = "none"
    /\ pending = <<>>
    /\ addmod = EmptyMap
    /\ del = EmptyMap
    /\ changeset_list = <<>>
    /\ changesets = <<>>
    /\ idx = 0
    /\ result = "none"
    /\ emitted = <<>>
    /\ resolvedPairs = 0
    /\ fileElems = <<>>
    /\ IndexAtRest
    /\ ReaderAtRest
    /\ DriverAtRest

\* The body of the for loop of a grouping, for one object: its store operation
\* and its bookkeeping in the two maps.
StoreApply ==
    /\ pc = "store"
    /\ budget > 0
    /\ \E a \in {"create", "modify", "delete"} :
       \E e \in {x \in ChangeElements : NewFromElement(x).status = "ok"} :
          LET ps == ApplyObject(a, PassState(store, addmod, del, FALSE),
                                NewFromElement(e).obj[1])
          IN  /\ store' = ps.store
              /\ addmod' = ps.addmod
              /\ del' = ps.del
              /\ result' = IF ps.err THEN "err" ELSE "ok"
              /\ grouping' = a
              /\ fileElems' = Append(fileElems, [action |-> a, elem |-> e])
    /\ budget' = budget - 1
    /\ UNCHANGED <<pc, repo_path, file_kind, head, notes, dir, pending, changeset_list,
                   changesets, idx, emitted, resolvedPairs>>
    /\ UNCHANGED indexVars
    /\ UNCHANGED driverVars

StoreNext == StoreApply

SpecStore == StoreInit /\ [][StoreNext]_vars

\* A file of zero bytes: what OpenOptions::truncate(true) leaves on open.
TruncatedFile == <<>>

\* A <modify> of an object whose file exists and reads, with an I/O error in the
\* write that follows the merge. The error is either returned by the open with
\* truncate(true), which then has not touched the file, or by to_writer on the
\* file the open has truncated; '?' returns it and the pass is over.
ModifyWriteFails ==
    /\ pc = "store"
    /\ budget > 0
    /\ \E e \in {x \in ChangeElements : NewFromElement(x).status = "ok"} :
          LET obj == NewFromElement(e).obj[1]
              name == ObjectFileName(obj)
          IN  /\ name \in DOMAIN store
              /\ "type" \in DOMAIN store[name]
              /\ fileElems' = Append(fileElems, [action |-> "modify", elem |-> e])
              /\ \E failing \in {"open", "to_writer"} :
                    store' = IF failing = "open" THEN store
                             ELSE WriteFile(store, name, TruncatedFile)
    /\ grouping' = "modify"
    /\ pc' = "failed"
    /\ result' = "err"
    /\ budget' = budget - 1
    /\ UNCHANGED <<repo_path, file_kind, head, notes, dir, pending, addmod, del,
                   changeset_list, changesets, idx, emitted, resolvedPairs>>
    /\ UNCHANGED indexVars
    /\ UNCHANGED driverVars

StoreFaultNext == StoreApply \/ ModifyWriteFails

SpecStoreFault == StoreInit /\ [][StoreFaultNext]_vars

-----------------------------------------------------------------------------
(* An object file written and read back: to_writer, then from_reader *)

\* The elements the objects are parsed from: with and without version and
\* generator, with no, one and a repeated tag key, nodes at two coordinates,
\* ways with no, one and a repeated node ref, relations with no member, with
\* members with a role, with an empty role and without a role attribute; and a
\* way and a relation with a child whose ref is no number or is missing.
YamlAttrs ==
    {("id" :> i) @@ ("changeset" :> "100") @@ v @@ g :
        i \in {"1", "2"},
        v \in {<<>>, "version" :> "2"},
        g \in {<<>>, "generator" :> "osmium"}}

YamlTags ==
    {<<>>, << CsTag("name", "a") >>, << CsTag("name", "a"), CsTag("name", "b") >>}

YamlNds ==
    {<<>>, << "ref" :> "1" >>, << "ref" :> "1", "ref" :> "2", "ref" :> "1" >>,
     << "ref" :> "2", "ref" :> "x" >>}

YamlMembers ==
    {<<>>,
     << ("type" :> "node") @@ ("ref" :> "1") >>,
     << ("type" :> "way") @@ ("ref" :> "2") @@ ("role" :> "outer"),
        ("type" :> "node") @@ ("ref" :> "1") @@ ("role" :> "") >>,
     << ("type" :> "node") @@ ("role" :> "inner") >>}

YamlElements ==
    {ElemWith("node", a @@ c, t, <<>>) :
        a \in YamlAttrs, c \in {CoordAttrs("10.0", "20.0"), CoordAttrs("1", "2")},
        t \in YamlTags}
    \cup {ElemWith("way", a, t, ch) : a \in YamlAttrs, t \in YamlTags, ch \in YamlNds}
    \cup {ElemWith("relation", a, t, ch) : a \in YamlAttrs, t \in YamlTags, ch \in YamlMembers}

\* A drawn element of a <create> grouping, ahead of its constructor.
YamlInit ==
    /\ pc = "element"
    /\ repo_path = "repository"
    /\ file_kind = "xml"
    /\ budget = 0
    /\ store = SeededStore
    /\ head = SeededHead
    /\ notes = {}
    /\ dir = {DirEntry(TRUE, TRUE, 5, DefaultArchive)}
    /\ grouping = "create"
    /\ pending = <<>>
    /\ \E e \in YamlElements : fileElems = << [action |-> "create", elem |-> e] >>
    /\ addmod = EmptyMap
    /\ del = EmptyMap
    /\ changeset_list = <<>>
    /\ changesets = <<>>
    /\ idx = 0
    /\ result = "none"
    /\ emitted = <<>>
    /\ resolvedPairs = 0
    /\ IndexAtRest
    /\ ReaderAtRest
    /\ DriverAtRest

\* Node::, Way:: or Relation::new_from_element on the element, and the push of
\* its object to created_objects.
ReadElement ==
    /\ pc = "element"
    /\ LET r == NewFromElement(fileElems[1].elem)
       IN  IF r.status = "panic"
           THEN pc' = "panicked" /\ pending' = pending
           ELSE pc' = "yaml" /\ pending' = Append(pending, r.obj[1])
    /\ UNCHANGED <<repo_path, file_kind, budget, store, head, notes, dir, grouping,
                   addmod, del, changeset_list, changesets, idx, result, emitted,
                   resolvedPairs, fileElems>>
    /\ UNCHANGED indexVars
    /\ UNCHANGED driverVars

\* File::create(<id>.yaml) and serde_yaml::to_writer(object_file, &object).
WriteObjectFile ==
    /\ pc = "yaml"
    /\ pc' = "written"
    /\ store' = WriteFile(store, ObjectFileName(pending[1]), Serialize(pending[1]))
    /\ UNCHANGED <<repo_path, file_kind, budget, head, notes, dir, grouping, pending,
                   addmod, del, changeset_list, changesets, idx, result, emitted,
                   resolvedPairs, fileElems>>
    /\ UNCHANGED indexVars
    /\ UNCHANGED driverVars

\* let file_object: OSMObject = serde_yaml::from_reader(&mut object_file)
ReadObjectFile ==
    /\ pc = "written"
    /\ pc' = "read"
    /\ yaml_object' = Some(Deserialize(store[ObjectFileName(pending[1])]))
    /\ UNCHANGED <<repo_path, file_kind, budget, store, head, notes, dir, grouping,
                   pending, addmod, del, changeset_list, changesets, idx, result,
                   emitted, resolvedPairs, fileElems, changeset_path, archive_read,
                   store_at_call>>
    /\ UNCHANGED driverVars

YamlNext == ReadElement \/ WriteObjectFile \/ ReadObjectFile

SpecYaml == YamlInit /\ [][YamlNext]_vars

-----------------------------------------------------------------------------
(* parse_changeset on its own: a drawn archive and a drawn changeset_list *)

\* The <changeset> elements drawn archives are made of: the two of the default
\* archive, one that carries every attribute of the dialect and a <tag> child,
\* and elements with a missing or unparsable attribute.
FullElement ==
    CsElem(("id" :> "999") @@ ("created_at" :> "2020-01-01T00:00:00Z")
           @@ ("closed_at" :> "2020-01-02T00:00:00Z") @@ ("open" :> "true")
           @@ ("user" :> "bob") @@ ("uid" :> "7")
           @@ ("min_lat" :> "10.0") @@ ("max_lat" :> "20.0")
           @@ ("min_lon" :> "1") @@ ("max_lon" :> "2"),
           << CsTag("source", "survey") >>)

CsElements ==
    SeqRange(DefaultArchive) \cup
    { FullElement,
      CsElem(("created_at" :> "2020-01-01T00:00:00Z") @@ ("open" :> "false"), <<>>),
      CsElem(("id" :> "x7") @@ ("created_at" :> "2020-01-01T00:00:00Z")
             @@ ("open" :> "false"), <<>>),
      CsElem(("id" :> "999") @@ ("open" :> "false"), <<>>),
      CsElem(("id" :> "999") @@ ("created_at" :> "2020-01-01T00:00:00Z"), <<>>),
      CsElem(("id" :> "999") @@ ("created_at" :> "2020-01-01T00:00:00Z")
             @@ ("open" :> "false") @@ ("uid" :> "u"), <<>>),
      CsElem(("id" :> "999") @@ ("created_at" :> "2020-01-01T00:00:00Z")
             @@ ("open" :> "false") @@ ("min_lat" :> "north"), <<>>) }

WantedIds == {100, 200, 999}

SeqsUpTo(S, n) == UNION {[1..k -> S] : k \in 0..n}

ParseInit ==
    /\ pc = "parse"
    /\ repo_path = "repository"
    /\ file_kind = "xml"
    /\ budget = 0
    /\ store = SeededStore
    /\ head = SeededHead
    /\ notes = {}
    /\ \E archive \in SeqsUpTo(CsElements, MaxArchiveLen) :
          dir = {DirEntry(TRUE, TRUE, 5, archive)}
    /\ grouping = "none"
    /\ pending = <<>>
    /\ addmod = EmptyMap
    /\ del = EmptyMap
    /\ changeset_list \in SeqsUpTo(WantedIds, MaxWanted)
    /\ changesets = <<>>
    /\ idx = 0
    /\ result = "none"
    /\ emitted = <<>>
    /\ resolvedPairs = 0
    /\ fileElems = <<>>
    /\ IndexAtRest
    /\ ReaderAtRest
    /\ DriverAtRest

\* The directory scan, File::open(changeset_path)? and the call
\* parse_changeset(&mut uncompressed_data, &changeset_list). The open of the
\* empty path the scan leaves when it picks nothing is an error.
ParseArchive ==
    /\ pc = "parse"
    /\ \E file \in LatestArchive(dir) :
        LET r == parse_changeset(Unwrap(file).data, changeset_list)
        IN  /\ changeset_path' = file
            /\ IF ~IsSome(file)
               THEN /\ pc' = "done" /\ result' = "err"
                    /\ UNCHANGED <<changesets, archive_read>>
               ELSE IF r.status = "panic"
               THEN /\ pc' = "panicked" /\ archive_read' = r.read
                    /\ UNCHANGED <<changesets, result>>
               ELSE /\ pc' = "parsed" /\ changesets' = r.changesets /\ result' = "ok"
                    /\ archive_read' = r.read
    /\ UNCHANGED <<repo_path, file_kind, budget, store, head, notes, dir, grouping,
                   pending, addmod, del, changeset_list, idx, emitted, resolvedPairs,
                   fileElems, yaml_object, store_at_call>>
    /\ UNCHANGED driverVars

ParseNext == ParseArchive

SpecParse == ParseInit /\ [][ParseNext]_vars

-----------------------------------------------------------------------------
(* The directory scan on its own: a drawn changesets directory *)

\* An archive that holds changeset 100 only.
OlderArchive == << DefaultArchive[1] >>

\* The entries drawn directories are made of: changesets-0.osm.zst,
\* changesets-5.osm.zst, changesets-7.osm.zst and changesets-007.osm.zst, the
\* file 9.osm.zst, and notes.txt.
IndexEntries ==
    { DirEntry(TRUE, TRUE, 0, DefaultArchive),
      DirEntry(TRUE, TRUE, 5, OlderArchive),
      DirEntry(TRUE, TRUE, 7, DefaultArchive),
      DirEntry(TRUE, TRUE, 7, OlderArchive),
      DirEntry(FALSE, TRUE, 9, OlderArchive),
      DirEntry(FALSE, FALSE, 0, <<>>) }

IndexInit ==
    /\ pc = "parse"
    /\ repo_path = "repository"
    /\ file_kind = "xml"
    /\ budget = 0
    /\ store = SeededStore
    /\ head = SeededHead
    /\ notes = {}
    /\ dir \in SUBSET IndexEntries
    /\ grouping = "none"
    /\ pending = <<>>
    /\ addmod = EmptyMap
    /\ del = EmptyMap
    /\ changeset_list \in SeqsUpTo({100, 200}, MaxWanted)
    /\ changesets = <<>>
    /\ idx = 0
    /\ result = "none"
    /\ emitted = <<>>
    /\ resolvedPairs = 0
    /\ fileElems = <<>>
    /\ IndexAtRest
    /\ ReaderAtRest
    /\ DriverAtRest

SpecIndex == IndexInit /\ [][ParseNext]_vars

-----------------------------------------------------------------------------
(* What the change file and the archive say, read off the input alone *)

ElemId(e) == U64Table[e.attrs["id"]]
ElemChangeset(e) == U64Table[e.attrs["changeset"]]
IsAddMod(a) == a \in {"create", "modify"}

\* Positions of the deltas of the file that touch object id i.
DeltasOf(i) == {k \in 1..Len(fileElems) : ElemId(fileElems[k].elem) = i}
\* Positions of the deltas of object id i that belong to changeset c.
DeltasOfIn(i, c) == {k \in DeltasOf(i) : ElemChangeset(fileElems[k].elem) = c}
Last(S) == CHOOSE k \in S : \A j \in S : j <= k

\* The <changeset> elements of the archive the run resolves in.
ArchiveElems == UNION {SeqRange(f.data) : f \in dir}
HasMetadata(c) == \E e \in ArchiveElems : e.attrs["id"] = ToString(c)
MetadataOf(c) == CHOOSE e \in ArchiveElems : e.attrs["id"] = ToString(c)

PassEndedOk == pc = "done" /\ result = "ok"

-----------------------------------------------------------------------------
(* Claims *)

\* C1: after any sequence of change files, the number of commits reachable from
\* HEAD is 1 (README) plus the number of distinct (change file, changeset id)
\* pairs whose metadata was resolved: one commit per changeset and file.
C1_OneCommitPerChangeset ==
    PassEndedOk => Len(head) = 1 + resolvedPairs

\* C2: within one pass the commits are emitted in strictly ascending
\* changeset-id order.
C2_AscendingCommitOrder ==
    \A i, j \in 1..Len(emitted) :
        i < j => emitted[i].changeset < emitted[j].changeset

\* C3: an object id whose last delta in the file is a Create or Modify has its
\* <id>.yaml in the working tree when the pass ends.
C3_AddModLeavesFile ==
    PassEndedOk =>
        \A i \in ObjectIds :
            (DeltasOf(i) # {} /\ IsAddMod(fileElems[Last(DeltasOf(i))].action))
                => FileNameOfId(i) \in DOMAIN store

\* C3 witness: a pass ended in which an object was deleted and then modified,
\* and its file is there.
C3_Witness ==
    /\ PassEndedOk
    /\ \E i \in ObjectIds :
        /\ \E k \in DeltasOf(i) : fileElems[k].action = "delete"
        /\ fileElems[Last(DeltasOf(i))].action = "modify"
        /\ FileNameOfId(i) \in DOMAIN store

\* C4: an object id whose last delta in the file is a Delete has no <id>.yaml
\* in the working tree when the pass ends.
C4_DeleteRemovesFile ==
    PassEndedOk =>
        \A i \in ObjectIds :
            (DeltasOf(i) # {} /\ fileElems[Last(DeltasOf(i))].action = "delete")
                => FileNameOfId(i) \notin DOMAIN store

\* C4 witness: a pass ended whose file created an object and deleted it last
\* (the file was there when the delete ran), and the file is gone.
C4_Witness ==
    /\ PassEndedOk
    /\ \E i \in ObjectIds :
        /\ DeltasOf(i) # {}
        /\ fileElems[Last(DeltasOf(i))].action = "delete"
        /\ \E k \in DeltasOf(i) : fileElems[k].action = "create"
        /\ FileNameOfId(i) \notin DOMAIN store

\* C5: when the deltas of one changeset create or modify an object and delete
\* it last, the Delete wins: the created/modified list of that changeset holds
\* no entry for the object when its commits are built.
C5_DeleteWins ==
    pc = "commits" =>
        \A i \in ObjectIds : \A c \in DOMAIN addmod :
            (/\ DeltasOfIn(i, c) # {}
             /\ fileElems[Last(DeltasOfIn(i, c))].action = "delete"
             /\ \E k \in DeltasOfIn(i, c) : IsAddMod(fileElems[k].action))
                => \A n \in 1..Len(addmod[c]) : addmod[c][n].id # i

\* The change file of scenario S2: node 1 created in changeset 100, then
\* deleted in changeset 100 by an element without lat/lon.
S2File ==
    << [action |-> "create",
        elem |-> Elem("node", NodeAttrs("1", "100", "1") @@ CoordAttrs("10.0", "20.0"), <<>>)],
       [action |-> "delete",
        elem |-> Elem("node", NodeAttrs("1", "100", "2"), <<>>)] >>

\* C6: scenario S2 completes without error, leaves 1.yaml absent and yields one
\* commit for changeset 100 with no added path and one removed path.
C6_ScenarioS2 ==
    (fileElems = S2File /\ pc \in {"done", "panicked"}) =>
        /\ PassEndedOk
        /\ FileNameOfId(1) \notin DOMAIN store
        /\ Len(emitted) = 1
        /\ emitted[1].changeset = 100
        /\ emitted[1].added = <<>>
        /\ Len(emitted[1].removed) = 1

\* C7 (state part): when a pass ends, no commit was emitted for a changeset id
\* the archive does not hold, every changeset id of the file the archive holds
\* was committed, the commits of the pass are the newest of HEAD, and the files
\* of objects last touched by a missing changeset are as its deltas left them.
C7_SkippedAtPassEnd ==
    PassEndedOk =>
        /\ \A k \in 1..Len(emitted) : HasMetadata(emitted[k].changeset)
        /\ \A c \in SeqRange(changeset_list) :
              HasMetadata(c) => \E k \in 1..Len(emitted) : emitted[k].changeset = c
        /\ \A k \in 1..Len(emitted) : emitted[k].oid = Len(head) - Len(emitted) + k
        /\ \A i \in ObjectIds :
              (DeltasOf(i) # {} /\ ~HasMetadata(ElemChangeset(fileElems[Last(DeltasOf(i))].elem)))
                => (FileNameOfId(i) \in DOMAIN store
                        <=> IsAddMod(fileElems[Last(DeltasOf(i))].action))

\* C7 (step part): the loop iteration of a changeset id without metadata changes
\* neither HEAD nor the notes nor the store, does not fail and goes on to the
\* next id; HEAD only ever moves by one commit, made for an id with metadata.
C7_SkipStep ==
    /\ (pc = "commits" /\ idx <= Len(changeset_list) /\ ~HasMetadata(changeset_list[idx]))
          => /\ head' = head /\ notes' = notes /\ store' = store
             /\ pc' = "commits" /\ result' = result /\ idx' = idx + 1
    /\ (pc # "start" /\ head' # head)
          => /\ pc = "commits" /\ HasMetadata(changeset_list[idx])
             /\ Len(head') = Len(head) + 1
             /\ SubSeq(head', 1, Len(head)) = head

\* C7: a changeset id that is not in the archive gets no commit, its store
\* mutations stay, the pass does not fail, the other changesets of the file
\* are committed, and HEAD moves only by the commits of resolved changesets.
C7_MissingChangesetSkipped == [](C7_SkippedAtPassEnd) /\ [][C7_SkipStep]_vars

\* C7 witness: a pass ended whose file referenced the missing changeset 999 and
\* a resolved one; the resolved one was committed and 2.yaml, written by 999, is there.
C7_Witness ==
    /\ PassEndedOk
    /\ \E n \in 1..Len(changeset_list) : changeset_list[n] = 999
    /\ Len(emitted) >= 1
    /\ FileNameOfId(2) \in DOMAIN store
    /\ DeltasOf(2) # {}
    /\ ElemChangeset(fileElems[Last(DeltasOf(2))].elem) = 999

\* The author a changeset's attributes call for.
ExpectedAuthor(c) ==
    LET a == MetadataOf(c).attrs
        user == IF "user" \in DOMAIN a THEN a["user"] ELSE "Unknown"
        t == IF "closed_at" \in DOMAIN a THEN a["closed_at"] ELSE a["created_at"]
    IN  [name |-> user, email |-> user \o "@osm", time |-> IsoTable[t]]

\* C8: every commit made for a changeset has author name = user, author email =
\* user@osm, author time = parse(closed_at, else created_at), and the caller's
\* signature as committer.
C8_AuthorFromChangeset ==
    \A k \in 1..Len(emitted) :
        /\ head[emitted[k].oid].author = ExpectedAuthor(emitted[k].changeset)
        /\ head[emitted[k].oid].committer = DefaultCommitter

\* C8 witness: a commit for changeset 200 (closed_at present, user absent) and
\* one for changeset 100 (no closed_at, user alice) were made.
C8_Witness ==
    /\ \E k \in 1..Len(emitted) :
        /\ emitted[k].changeset = 200
        /\ head[emitted[k].oid].author = [name |-> "Unknown", email |-> "Unknown@osm",
                                          time |-> 1577923200]
    /\ \E k \in 1..Len(emitted) :
        /\ emitted[k].changeset = 100
        /\ head[emitted[k].oid].author = [name |-> "alice", email |-> "alice@osm",
                                          time |-> 1577836800]

\* The comment a changeset element carries: the v of its <tag k="comment">.
CommentTags(c) == {n \in 1..Len(MetadataOf(c).tags) : MetadataOf(c).tags[n].k = "comment"}
ExpectedMessage(c) ==
    IF CommentTags(c) = {} THEN "" ELSE Trim(MetadataOf(c).tags[Last(CommentTags(c))].v)

\* C9: the commit message is the changeset's comment tag, trimmed, and empty
\* only when the changeset has no comment tag.
C9_MessageIsComment ==
    \A k \in 1..Len(emitted) :
        head[emitted[k].oid].message = ExpectedMessage(emitted[k].changeset)

\* The note lines a changeset element calls for; the archive lists the tags of
\* an element in ascending key order.
RECURSIVE ExpectedTagLines(_)
ExpectedTagLines(tags) ==
    IF tags = <<>> THEN <<>>
    ELSE (IF Trim(Head(tags).k) = "" THEN <<>>
          ELSE << Head(tags).k \o ": " \o Head(tags).v >>)
         \o ExpectedTagLines(Tail(tags))

ExpectedNoteBody(c) ==
    << "Legacy Changeset ID: " \o ToString(c) >> \o ExpectedTagLines(MetadataOf(c).tags)

\* C10: every commit made for a changeset has exactly one note, whose body is
\* the id line followed by one "key: value" line per tag in ascending key order.
C10_NotePerCommit ==
    \A k \in 1..Len(emitted) :
        LET ns == {n \in notes : n.target = emitted[k].oid}
        IN  /\ Cardinality(ns) = 1
            /\ \A n \in ns : n.body = ExpectedNoteBody(emitted[k].changeset)

\* C11 (state part): the commits reachable from HEAD form one linear chain: the
\* first has no parent, every other has the one before it as its only parent.
C11_LinearHistory ==
    \A i \in 1..Len(head) : head[i].parents = IF i = 1 THEN <<>> ELSE <<i - 1>>

\* C11 (step part): a step that calls commit() adds exactly one commit; HEAD
\* moves only by one new commit whose only parent is the HEAD before the step
\* (none when HEAD was unborn), and every commit reachable before stays as it was.
C11_CommitStep ==
    /\ (Len(emitted') = Len(emitted) + 1 \/ (pc = "start" /\ repo_path = "absent"))
          => Len(head') = Len(head) + 1
    /\ head' # head
          => /\ Len(head') = Len(head) + 1
             /\ SubSeq(head', 1, Len(head)) = head
             /\ head'[Len(head')].parents = IF Len(head) > 0 THEN <<Len(head)>> ELSE <<>>

\* C11: each call of commit() produces exactly one commit on top of the old
\* HEAD, the history is a single linear chain and it is never rewritten.
C11_OneCommitPerCall == [](C11_LinearHistory) /\ [][C11_CommitStep]_vars

\* C11 witness: a history of three commits, the first made on an unborn HEAD by
\* this run, the others by the commit loop of a pass.
C11_Witness ==
    /\ Len(head) >= 3
    /\ head[1].committer = DefaultCommitter
    /\ head[1].parents = <<>>
    /\ head[3].parents = <<2>>
    /\ Len(emitted) >= 1

\* The README seed commit of this run: on an unborn HEAD, by the default committer.
SeedCommit ==
    [tree |-> << [filename |-> ReadmeName, oid |-> ReadmeContent] >>,
     parents |-> <<>>,
     message |-> "Create the README.md",
     author |-> DefaultCommitter,
     committer |-> DefaultCommitter]

\* The step init_git_repository takes: on a missing path HEAD becomes the seed
\* commit; on an existing path HEAD, the working tree and the notes stay.
C12_InitStep ==
    (pc = "start" /\ pc' # "start")
        => IF repo_path = "absent"
           THEN head' = <<SeedCommit>> /\ pc' = "idle"
           ELSE head' = head /\ store' = store /\ notes' = notes

\* C12: init_git_repository makes the README seed commit (message "Create the
\* README.md", default committer as author and committer, no parent) only when
\* the path does not exist; an existing path is opened and HEAD is unchanged.
C12_SeedOnlyWhenAbsent == [][C12_InitStep]_vars

\* C12 witness: the repository of an earlier run was opened: the driver is past
\* init and HEAD is still the earlier run's seed commit.
C12_Witness ==
    /\ pc = "idle"
    /\ repo_path = "repository"
    /\ head = SeededHead
    /\ head[1].committer = EarlierCommitter

\* The delta a step applies, when it applies one.
AppliesDelta == Len(fileElems') = Len(fileElems) + 1
AppliedDelta == fileElems'[Len(fileElems')]
AppliedObject == NewFromElement(AppliedDelta.elem).obj[1]

\* C13: applying the same Create, Modify or Delete delta a second time in a row
\* leaves the object store (files and contents) as the first application left it.
C13_Step ==
    (/\ AppliesDelta
     /\ Len(fileElems) >= 1
     /\ AppliedDelta = fileElems[Len(fileElems)])
        => store' = store

C13_StoreOpsIdempotent == [][C13_Step]_vars

\* C13 witness: the same Modify was applied twice to a store that did not hold
\* the file at first, and the file holds the object.
C13_Witness ==
    /\ pc = "store"
    /\ Len(fileElems) = 2
    /\ fileElems[1] = fileElems[2]
    /\ fileElems[2].action = "modify"
    /\ del = EmptyMap
    /\ ElemId(fileElems[2].elem) = 2
    /\ store["2.yaml"]["type"] = "Way"

\* C14: a Modify of obj leaves in <id>.yaml the serialized fields of obj, which
\* is the store a Create of obj leaves, whether the file was there (with an
\* object of the same or of another kind) or not.
C14_Step ==
    (AppliesDelta /\ AppliedDelta.action = "modify")
        => /\ store' = ApplyCreate(PassState(store, addmod, del, FALSE), AppliedObject).store
           /\ store'[ObjectFileName(AppliedObject)] = Serialize(AppliedObject)
           /\ result' = "ok"

C14_ModifyIsUpsert == [][C14_Step]_vars

\* C14 witness: a Way was created as 2.yaml and then a Node with id 2 was
\* modified: the file holds the Node.
C14_Witness ==
    /\ pc = "store"
    /\ Len(fileElems) = 2
    /\ fileElems[1].action = "create" /\ fileElems[1].elem.name = "way"
    /\ fileElems[2].action = "modify" /\ fileElems[2].elem.name = "node"
    /\ ElemId(fileElems[1].elem) = 2 /\ ElemId(fileElems[2].elem) = 2
    /\ store["2.yaml"]["type"] = "Node"

\* The time string the commit of changeset c is dated by.
TimeStringOf(c) ==
    LET a == MetadataOf(c).attrs
    IN  IF "closed_at" \in DOMAIN a THEN a["closed_at"] ELSE a["created_at"]

\* C15: a changeset whose time string does not parse does not fail the pass:
\* the pass ends Ok with a commit for every resolved changeset of the file, the
\* one with the unparsable time dated at epoch 0.
C15_TimeFallback ==
    (pc = "done" /\ changeset_list # <<>>) =>
        /\ result = "ok"
        /\ \A c \in SeqRange(changeset_list) :
              HasMetadata(c) =>
                  \E k \in 1..Len(emitted) :
                      /\ emitted[k].changeset = c
                      /\ head[emitted[k].oid].author.time =
                            (IF TimeStringOf(c) \in DOMAIN IsoTable
                             THEN IsoTable[TimeStringOf(c)] ELSE 0)

\* C16: when the XML reader reports an error while a change file is read, the
\* file is abandoned and the call returns success, so that the driver goes on
\* with the next change file.
C16_XmlErrorAbandonsFile ==
    (pc = "done" /\ file_kind = "broken_xml") => (result = "ok" /\ DriverReady)

SkipKinds == {"empty", "corrupt", "empty_text"}

\* C17 (state part): after a change file that is empty, does not decompress or
\* decompresses to nothing, the call has returned Ok and the driver goes on.
C17_SkippedFileIsOk ==
    (pc = "done" /\ file_kind \in SkipKinds) => (result = "ok" /\ DriverReady)

\* C17 (step part): the call on such a file leaves the object store, HEAD and
\* the notes as they were.
C17_SkipStep ==
    (file_kind' \in SkipKinds /\ pc' = "done")
        => store' = store /\ head' = head /\ notes' = notes /\ result' = "ok"

\* C17: an empty or undecompressable change file returns success and changes
\* neither the object store nor HEAD nor the notes; the driver continues.
C17_EmptyFileIsNoOp == [](C17_SkippedFileIsOk) /\ [][C17_SkipStep]_vars

\* C17 witness: a pass committed and annotated a changeset, then a file that
\* does not decompress was handed over; the commit, the note and the object
\* file are still there.
C17_Witness ==
    /\ pc = "done" /\ file_kind = "corrupt" /\ result = "ok"
    /\ Len(head) >= 2
    /\ notes # {}
    /\ "1.yaml" \in DOMAIN store

\* C18: an element that lacks a mandatory attribute is skipped as a parse
\* error: the pass ends Ok, and every well-formed sibling of the file is applied
\* and its changeset, when the archive resolves it, committed.
C18_BadObjectSkipped ==
    (/\ pc \in {"done", "panicked"}
     /\ file_kind = "xml"
     /\ \E k \in 1..Len(fileElems) : NewFromElement(fileElems[k].elem).status = "panic")
        => /\ PassEndedOk
           /\ \A k \in 1..Len(fileElems) :
                 (/\ NewFromElement(fileElems[k].elem).status = "ok"
                  /\ HasMetadata(ElemChangeset(fileElems[k].elem)))
                    => \E j \in 1..Len(emitted) :
                          emitted[j].changeset = ElemChangeset(fileElems[k].elem)

\* A <changeset> element that has what the dialect requires: a numeric id,
\* created_at, a boolean open, and uid and bounding box numeric when present.
WellFormedChangeset(e) ==
    /\ "id" \in DOMAIN e.attrs /\ e.attrs["id"] \in DOMAIN U64Table
    /\ "created_at" \in DOMAIN e.attrs
    /\ "open" \in DOMAIN e.attrs /\ e.attrs["open"] \in {"true", "false"}
    /\ "uid" \in DOMAIN e.attrs => e.attrs["uid"] \in DOMAIN U64Table
    /\ \A k \in BoxKeys : k \in DOMAIN e.attrs => e.attrs[k] \in DOMAIN F64Table

ParsedIds == {changesets[i].id : i \in 1..Len(changesets)}

\* C19: a bad <changeset> element is skipped: parse_changeset returns, and its
\* result holds every wanted id that a well-formed element of the archive
\* carries, whether or not the bad element's id is wanted.
C19_BadChangesetSkipped ==
    pc \in {"parsed", "panicked"} =>
        /\ pc = "parsed"
        /\ \A w \in SeqRange(changeset_list) :
              (\E e \in ArchiveElems : WellFormedChangeset(e) /\ e.attrs["id"] = ToString(w))
                  => w \in ParsedIds

\* C20: parse_changeset returns only changesets whose id is in the wanted list,
\* returns every wanted id that occurs in the archive, and returns nothing for
\* an empty wanted list.
C20_OnlyWanted ==
    pc = "parsed" =>
        /\ ParsedIds \subseteq SeqRange(changeset_list)
        /\ \A w \in SeqRange(changeset_list) :
              (\E e \in ArchiveElems : "id" \in DOMAIN e.attrs /\ e.attrs["id"] = ToString(w))
                  => w \in ParsedIds
        /\ changeset_list = <<>> => changesets = <<>>

\* C20 witness: of an archive holding changesets 100 and 200, with 200 wanted,
\* exactly changeset 200 was returned.
C20_Witness ==
    /\ pc = "parsed"
    /\ changeset_list = <<200>>
    /\ \E f \in dir : f.data = DefaultArchive
    /\ Len(changesets) = 1
    /\ changesets[1].id = 200

\* The archive parse_changeset was given, and the wanted ids.
ParsedArchive == Unwrap(changeset_path).data
Wanted == SeqRange(changeset_list)

\* The wanted ids carried by the first k elements of the archive.
WantedIdsUpTo(k) ==
    {w \in Wanted : \E j \in 1..k : /\ "id" \in DOMAIN ParsedArchive[j].attrs
                                    /\ ParsedArchive[j].attrs["id"] = ToString(w)}

\* C21: parse_changeset stops as soon as every wanted id has been yielded: once
\* the first k elements of the archive carry every wanted id, it has read no
\* element after the k-th.
C21_EarlyTermination ==
    pc = "parsed" =>
        \A k \in 0..Len(ParsedArchive) :
            Wanted \subseteq WantedIdsUpTo(k) => archive_read <= k

\* C21 witness: changeset 100 is wanted and is the first element of a longer
\* archive; the call returned it having read that one element.
C21_Witness ==
    /\ pc = "parsed"
    /\ changeset_list = <<100>>
    /\ Len(ParsedArchive) = 2
    /\ ParsedArchive[1].attrs["id"] = "100"
    /\ ParsedIds = {100}
    /\ archive_read = 1

\* The tags a <changeset> element's <tag> children spell out: k -> v, the last
\* child of a key winning.
TagsOfChildren(e) ==
    [k \in {e.tags[j].k : j \in 1..Len(e.tags)} |->
        e.tags[Last({j \in 1..Len(e.tags) : e.tags[j].k = k})].v]

\* The changeset an element that carries every attribute stands for.
DocumentedChangeset(e) ==
    [id |-> U64Table[e.attrs["id"]],
     created_at |-> e.attrs["created_at"],
     closed_at |-> Some(e.attrs["closed_at"]),
     open |-> (e.attrs["open"] = "true"),
     user |-> e.attrs["user"],
     uid |-> U64Table[e.attrs["uid"]],
     min_lat |-> Some(F64Table[e.attrs["min_lat"]]),
     max_lat |-> Some(F64Table[e.attrs["max_lat"]]),
     min_lon |-> Some(F64Table[e.attrs["min_lon"]]),
     max_lon |-> Some(F64Table[e.attrs["max_lon"]]),
     tags |-> TagsOfChildren(e)]

\* C22: a wanted <changeset> element that carries every attribute and <tag>
\* children is returned as the changeset whose fields are the attribute values
\* and whose tags are exactly the k -> v pairs of the children.
C22_FullElementParsed ==
    pc = "parsed" =>
        \A j \in 1..archive_read :
            (ParsedArchive[j] = FullElement /\ 999 \in Wanted)
                => \E i \in 1..Len(changesets) :
                      changesets[i] = DocumentedChangeset(FullElement)

\* Replication sequences in the order of the server: by top, middle, bottom.
SequenceBefore(a, b) ==
    \/ a[1] < b[1]
    \/ a[1] = b[1] /\ a[2] < b[2]
    \/ a[1] = b[1] /\ a[2] = b[2] /\ a[3] < b[3]

\* C23: the data loop hands the replication sequences to convert_objects_to_git
\* in increasing order, each at most once.
C23_StrictSequence ==
    \A i, j \in 1..Len(replayed) : i < j => SequenceBefore(replayed[i], replayed[j])

\* The changeset ids that have a delta in the file of the pass.
ChangesetsOfFile == {ElemChangeset(fileElems[k].elem) : k \in 1..Len(fileElems)}

\* The commits the pass has made for changeset c.
CommitsFor(c) == {j \in 1..Len(emitted) : emitted[j].changeset = c}

\* C24: by the end of a pass every changeset id with a delta in the file has
\* reached one terminal state, once: Committed (one commit of this pass) if the
\* archive holds its metadata, Skipped (no commit) otherwise; a later pass
\* starts afresh, its commits counted from none.
C24_OneTerminalState ==
    PassEndedOk =>
        \A c \in ChangesetsOfFile :
            Cardinality(CommitsFor(c)) = IF HasMetadata(c) THEN 1 ELSE 0

\* C25: an object written to its <id>.yaml and read back is the object it was,
\* in every field but id and changeset, which come back as 0: with or without
\* version and generator, with empty tags, nodes or member, and with members
\* that have no role.
C25_RoundTrip ==
    pc = "read" =>
        Unwrap(yaml_object) = [pending[1] EXCEPT !.id = 0, !.changeset = 0]

\* C25 witness: a relation without tags whose second member has no role was
\* written and read back; the file has no tags key and that member no role key.
C25_Witness ==
    /\ pc = "read"
    /\ pending[1].kind = "Relation"
    /\ pending[1].tags = <<>>
    /\ Len(pending[1].member) = 2
    /\ pending[1].member[2].role = None
    /\ "tags" \notin DOMAIN store[ObjectFileName(pending[1])]
    /\ "role" \notin DOMAIN store[ObjectFileName(pending[1])]["member"][2]
    /\ Unwrap(yaml_object).member[2].role = None

\* The file names of a tree.
TreeNames(tree) == {tree[n].filename : n \in 1..Len(tree)}

\* The added paths of a call that exist on disk, and, given the tree they were
\* staged into, the removed paths that it tracks.
ExistingPaths(paths) == SelectSeq(paths, LAMBDA q : RelativePath(q) \in DOMAIN store)
TrackedPaths(paths, tree) == SelectSeq(paths, LAMBDA q : RelativePath(q) \in TreeNames(tree))

\* C26: every call of commit() made by the pass produced its commit, a child of
\* the HEAD it found, and the tree of that commit is the tree the call would
\* have built had the added paths missing on disk and the removed paths that
\* are not tracked been left out of its arguments.
C26_MissingPathsSkipped ==
    \A k \in 1..Len(emitted) :
        LET call == emitted[k]
            prior == head[call.oid - 1].tree
            staged == StageAdded(prior, store, ExistingPaths(call.added))
        IN  /\ call.oid \in 2..Len(head)
            /\ head[call.oid].parents = << call.oid - 1 >>
            /\ head[call.oid].tree = UnstageRemoved(staged, TrackedPaths(call.removed, staged))

\* C26 witness: a pass made a commit one of whose added paths was missing on
\* disk while another was staged, and a commit one of whose removed paths was
\* not tracked.
C26_Witness ==
    /\ PassEndedOk
    /\ \E k \in 1..Len(emitted) :
          /\ \E n \in 1..Len(emitted[k].added) :
                RelativePath(emitted[k].added[n]) \notin DOMAIN store
          /\ \E n \in 1..Len(emitted[k].added) :
                /\ RelativePath(emitted[k].added[n]) \in DOMAIN store
                /\ RelativePath(emitted[k].added[n]) \in TreeNames(head[emitted[k].oid].tree)
    /\ \E k \in 1..Len(emitted) :
          \E n \in 1..Len(emitted[k].removed) :
              RelativePath(emitted[k].removed[n]) \notin
                  TreeNames(StageAdded(head[emitted[k].oid - 1].tree, store, emitted[k].added))

\* The object the constructors build from the k-th delta of the file.
ObjectOfDelta(k) == NewFromElement(fileElems[k].elem).obj[1]

\* C27: the deltas of a file are applied in document order: once its groupings
\* are applied, the file of every object id the change file touches is what
\* the last delta of that id in document order makes it: that delta's object
\* after a create or modify (of two modifies the second), no file after a delete.
C27_LastDeltaWins ==
    (pc = "commits" \/ PassEndedOk) =>
        \A i \in ObjectIds :
            DeltasOf(i) # {} =>
                LET last == Last(DeltasOf(i))
                IN  IF IsAddMod(fileElems[last].action)
                    THEN /\ FileNameOfId(i) \in DOMAIN store
                         /\ store[FileNameOfId(i)] = Serialize(ObjectOfDelta(last))
                    ELSE FileNameOfId(i) \notin DOMAIN store

\* C27 witness: a file modified object 1 twice with different content; the
\* pass ended and 1.yaml holds the object of the second modify.
C27_Witness ==
    /\ PassEndedOk
    /\ \E j, k \in DeltasOf(1) :
          /\ j < k /\ k = Last(DeltasOf(1))
          /\ fileElems[j].action = "modify" /\ fileElems[k].action = "modify"
          /\ Serialize(ObjectOfDelta(j)) # Serialize(ObjectOfDelta(k))
          /\ store["1.yaml"] = Serialize(ObjectOfDelta(k))

\* C28: a Modify whose file was read and whose write then failed leaves the
\* file with the content it had.
C28_Step ==
    (pc = "store" /\ pc' = "failed")
        => store'[ObjectFileName(AppliedObject)] = store[ObjectFileName(AppliedObject)]

C28_FailedWriteKeepsFile == [][C28_Step]_vars

\* The entries of the directory named changesets-<N>.osm.zst.
PatternEntries == {f \in dir : f.named}

\* C29: the directory scan picks, among the entries named
\* changesets-<N>.osm.zst, one with the greatest N whenever there is such an
\* entry, N = 0 included, and never picks an entry that is not so named.
C29_GreatestArchive ==
    pc \in {"parsed", "panicked", "done"} =>
        /\ PatternEntries # {} =>
              /\ IsSome(changeset_path)
              /\ \A g \in PatternEntries : g.n <= Unwrap(changeset_path).n
        /\ IsSome(changeset_path) => Unwrap(changeset_path).named

\* C30 (state part): besides README.md the store holds only files <id>.yaml,
\* one name for an id whatever the kind.
C30_OneNamePerId ==
    \A name \in DOMAIN store :
        name # ReadmeName => \E i \in ObjectIds : name = FileNameOfId(i)

\* C30 (step part): after a Create or Modify of an object with id n, n.yaml
\* holds an object of that object's kind, whatever kind it held before; after a
\* Delete of an object of any kind with id n there is no n.yaml.
C30_Step ==
    AppliesDelta =>
        LET name == FileNameOfId(AppliedObject.id)
        IN  IF IsAddMod(AppliedDelta.action)
            THEN /\ name \in DOMAIN store'
                 /\ store'[name]["type"] = AppliedObject.kind
            ELSE name \notin DOMAIN store'

\* C30: the object store holds at most one file per numeric id across the
\* three kinds of object.
C30_OneFilePerId == [](C30_OneNamePerId) /\ [][C30_Step]_vars

\* C30 witness: a Way was created as 2.yaml and then a Node with id 2 was
\* created: 2.yaml holds the Node and is the only object file.
C30_Witness ==
    /\ pc = "store"
    /\ Len(fileElems) = 2
    /\ fileElems[1].action = "create" /\ fileElems[1].elem.name = "way"
    /\ fileElems[2].action = "create" /\ fileElems[2].elem.name = "node"
    /\ ElemId(fileElems[1].elem) = 2 /\ ElemId(fileElems[2].elem) = 2
    /\ DOMAIN store = {ReadmeName, "2.yaml"}
    /\ store["2.yaml"]["type"] = "Node"

\* The greatest component of a sequence triple: three decimal digits.
TripleLimit == 999

\* C31: every sequence triple the download loops format into a cache path or a
\* URL has its three components between 0 and 999.
C31_TriplesInRange ==
    \A r \in requested : \A i \in 1..3 : r.triple[i] \in 0..TripleLimit

\* C40: in every iteration of the data loop the cache path looked up is the
\* one of the data position of that iteration.
C40_CachePathIsDataPosition ==
    \A r \in requested :
        (r.loop = "data" /\ r.use = "cache") => r.triple = r.position

\* The element the object of the round trip was parsed from, and its children.
ParsedElement == fileElems[1].elem
ChildAttr(i, k) ==
    IF k \in DOMAIN ParsedElement.children[i] THEN ParsedElement.children[i][k] ELSE ""

\* C32: the members of a parsed relation are its <member> children in document
\* order; a member whose role attribute is empty or missing has no role, and a
\* member with a non-empty role has exactly that role.
C32_MemberRoles ==
    (pc \in {"yaml", "written", "read"} /\ ParsedElement.name = "relation") =>
        /\ Len(pending[1].member) = Len(ParsedElement.children)
        /\ \A i \in 1..Len(ParsedElement.children) :
              /\ pending[1].member[i].type = ChildAttr(i, "type")
              /\ ToString(pending[1].member[i].ref_id) = ChildAttr(i, "ref")
              /\ pending[1].member[i].role =
                    IF ChildAttr(i, "role") = "" THEN None ELSE Some(ChildAttr(i, "role"))

\* C32 witness: a relation whose first member has role outer and whose second
\* has an empty role attribute was parsed: outer is kept, the second has none.
C32_Witness ==
    /\ pc = "yaml"
    /\ ParsedElement.name = "relation"
    /\ Len(ParsedElement.children) = 2
    /\ ParsedElement.children[2]["role"] = ""
    /\ pending[1].member[1].role = Some("outer")
    /\ pending[1].member[2].role = None
    /\ pending[1].member[1].ref_id = 2

\* C33: the nodes of a parsed way are the refs of its <nd> children in
\* document order, repeated refs included.
C33_WayNodesInOrder ==
    (pc \in {"yaml", "written", "read"} /\ ParsedElement.name = "way") =>
        /\ Len(pending[1].nodes) = Len(ParsedElement.children)
        /\ \A i \in 1..Len(ParsedElement.children) :
              ToString(pending[1].nodes[i]) = ChildAttr(i, "ref")

\* C33 witness: a way with <nd> refs 1, 2, 1 was parsed and has nodes 1, 2, 1.
C33_Witness ==
    /\ pc = "yaml"
    /\ ParsedElement.name = "way"
    /\ Len(ParsedElement.children) = 3
    /\ pending[1].nodes = <<1, 2, 1>>

\* C34: no tree written by commit() holds two entries with the same file name.
C34_NoDuplicateEntries ==
    \A n \in 1..Len(head) :
        \A i, j \in 1..Len(head[n].tree) :
            head[n].tree[i].filename = head[n].tree[j].filename => i = j

\* The pass has ended with Ok and the archive held the metadata of every
\* changeset that has a delta in its file.
AllChangesetsResolved ==
    PassEndedOk /\ \A c \in ChangesetsOfFile : HasMetadata(c)

\* C35: when a pass ends with every changeset resolved, <id>.yaml is in the
\* HEAD tree exactly if it is in the working tree, for every object id the file
\* of the pass has a delta for.
C35_HeadAgreesWithWorkTree ==
    AllChangesetsResolved =>
        \A i \in ObjectIds :
            DeltasOf(i) # {} =>
                (FileNameOfId(i) \in TreeNames(HeadTree(head))
                    <=> FileNameOfId(i) \in DOMAIN store)

\* The object id a path <id>.yaml of the working tree names.
IdOfPath(path) == CHOOSE i \in ObjectIds : FileNameOfId(i) = RelativePath(path)

\* The create and modify deltas the file has for object i in changeset c.
RevisionsOfIn(i, c) == {k \in DeltasOfIn(i, c) : IsAddMod(fileElems[k].action)}

\* The content the tree of commit n holds for a file name: that of its last
\* entry with that name.
ContentIn(n, name) ==
    LET tree == head[n].tree
        at == Last({e \in 1..Len(tree) : tree[e].filename = name})
    IN  tree[at].oid

\* C36: the commit made for changeset c holds, for each path it was given as
\* added and has an entry for, the revision c produced: the object of the last
\* create or modify delta of that id in c.
C36_CommitHoldsOwnRevision ==
    \A k \in 1..Len(emitted) :
        \A n \in 1..Len(emitted[k].added) :
            LET path == emitted[k].added[n]
                i == IdOfPath(path)
                revs == RevisionsOfIn(i, emitted[k].changeset)
            IN  (RelativePath(path) \in TreeNames(head[emitted[k].oid].tree) /\ revs # {})
                    => ContentIn(emitted[k].oid, RelativePath(path))
                           = Serialize(ObjectOfDelta(Last(revs)))

\* The file names a call of commit() was given, as added or as removed.
NamesOfCall(call) ==
    {RelativePath(call.added[n]) : n \in 1..Len(call.added)}
        \cup {RelativePath(call.removed[n]) : n \in 1..Len(call.removed)}

\* The entries of a tree whose file name is not in a set, in tree order.
EntriesOutside(tree, names) == SelectSeq(tree, LAMBDA e : e.filename \notin names)

\* C37: the commit made for a changeset differs from its parent only in
\* entries of the paths it was given as added or removed: every other entry of
\* the parent tree (README.md, the objects of other changesets) is in the new
\* tree unchanged, and the new tree has no other entry besides.
C37_OtherEntriesCarriedOver ==
    \A k \in 1..Len(emitted) :
        LET names == NamesOfCall(emitted[k])
        IN  EntriesOutside(head[emitted[k].oid].tree, names)
                = EntriesOutside(head[emitted[k].oid - 1].tree, names)

\* C37 witness: a pass committed two changesets; the second commit staged a
\* path of its own, and its parent tree held README.md and an object of the
\* first changeset that the second was not given.
C37_Witness ==
    /\ PassEndedOk
    /\ Len(emitted) = 2
    /\ emitted[1].changeset # emitted[2].changeset
    /\ \E n \in 1..Len(emitted[2].added) :
          RelativePath(emitted[2].added[n]) \in TreeNames(head[emitted[2].oid].tree)
    /\ \E e \in 1..Len(head[emitted[1].oid].tree) :
          /\ head[emitted[1].oid].tree[e].filename \notin NamesOfCall(emitted[2]) \cup {"README.md"}
          /\ head[emitted[1].oid].tree[e].filename \in TreeNames(head[emitted[2].oid].tree)
    /\ "README.md" \in TreeNames(head[emitted[2].oid].tree)

\* C38: parsing ends on every finite input: whatever prefix of a document the
\* reader is given, convert_objects_to_git's reading and parse_changeset return.
C38_ParsingTerminates == <>(pc = "parsed")

\* C39: a pass that ends with an error before it made a commit leaves every
\* file of the working tree as the pass found it: none created, changed or removed.
C39_FailedPassKeepsStore ==
    (pc = "done" /\ result = "err" /\ emitted = <<>>) => store = store_at_call

====
